---- MODULE Spec2Model ----
(***************************************************************************)
(* A model of the document-to-inference pipeline of BIM_OCR:               *)
(*   - the attachment encoder   (gateway/services/pdf_pipeline.py),        *)
(*   - the prompt builder       (gateway/services/pdf_pipeline.py),        *)
(*   - the inference client     (gateway/services/runpod_client.py).       *)
(* Each component has its own specification (SpecEnc, SpecBuild,           *)
(* SpecClient) over its own variables; the variables of the other          *)
(* components stay at their initial values.                                *)
(***************************************************************************)
EXTENDS Integers, Sequences, FiniteSets, TLC

VARIABLES
    \* ---- attachment encoder (rasterize_pdf and its callees) ----
    suffix,        \* Path(local_path).suffix.lower() of the uploaded document
    images,        \* the rendered pages, in page order (convert_from_path / Image.open)
    index,         \* the page being encoded (enumerate index)
    quality,       \* the JPEG quality of the latest encoding
    image_bytes,   \* len(image_bytes) of the latest encoding
    encodings,     \* the encodings of the current page, in order: quality and size
    attachments,   \* the local list of _rasterize_pdf_document
    written,       \* filenames written to the job workspace (storage.write_bytes)
    enc_pc,        \* position in rasterize_pdf
    enc_returned,  \* TRUE once rasterize_pdf has returned a list to its caller
    enc_result,    \* the returned list
    enc_error,     \* the RuntimeError raised, or NoError
    \* ---- prompt builder (build_llm_requests) ----
    job,           \* the DocumentJob: id, filename, tasks
    page_atts,     \* the attachments handed to build_llm_requests
    build_pc,      \* "start" before the call, "done" after it
    requests,      \* the list build_llm_requests returned
    \* ---- inference client (RunPodClient.submit_batch) ----
    endpoint,        \* self._endpoint
    is_serverless,   \* self._is_serverless
    timeout_seconds, \* self._timeout_seconds, in ticks of 0.1 s
    poll_interval,   \* self._poll_interval, in ticks of 0.1 s
    cl_requests,     \* the requests handed to submit_batch
    req_index,       \* how many requests the for loop has taken
    results,         \* the local list `results` of submit_batch
    cl_pc,           \* position in submit_batch / submit / _submit_serverless
    cl_returned,     \* TRUE once submit_batch has returned a list
    cl_result,       \* the list submit_batch returned
    cl_error,        \* the exception that left submit_batch, or NoError
    job_id,          \* job_id of the running _submit_serverless call
    poll_attempts,   \* poll_attempts of the running call
    deadline,        \* deadline of the running call (meaningful when HasDeadline)
    now,             \* time.monotonic() since submit was called, in ticks of 0.1 s
    call,            \* history of the running submit call (not program state)
    \* ---- dimension clamp (_clamp_image_dimensions) ----
    image_size,      \* image.size: <<width, height>>
    new_size,        \* the size of the image the function returns
    clamp_pc,        \* "start" before the call, "done" after it
    \* ---- one batch served by the worker and read by the client ----
    e2e_request,     \* the LLMBatchRequest sent
    e2e_serverless,  \* TRUE: serverless handler and job output; FALSE: /analyze
    e2e_pc,          \* "start", "served" (the worker has answered), "done"
    e2e_output,      \* the JSON value the client receives
    e2e_results,     \* the list the client returns
    \* ---- submit calls running concurrently on one client ----
    cc_now,          \* time.monotonic(), in ticks
    cc_frames,       \* per frame of _submit_serverless: job_id, poll_attempts, deadline
    cc_calls,        \* per call: where it is, its request, when its sleep ends, its return value
    cc_hist,         \* per call: what it sent and what it was answered
    cc_jobs,         \* provider: for each job created so far, the call whose POST created it
    \* ---- gateway routes, DocumentStore, task queue and Celery worker ----
    gw_store,        \* document_store._documents[id] of the uploaded job, or NoDoc
    gw_tasks,        \* the list object job.tasks, shared by every copy of the job
    gw_upload,       \* the upload_document request: where it is, its local job
    gw_clear,        \* the clear_cache request in flight, and how many were made
    gw_qa,           \* the trigger_qa requests made, the last answer
    gw_queue,        \* messages sent to gateway.process_document, not yet taken
    gw_worker,       \* process_document runs that have ended, the last outcome
    \* ---- one run of the Celery task process_document ----
    pd_job,          \* DocumentJob.model_validate(job_payload)
    pd_pc,           \* "start", "rasterized", "built", "client", "returned", "raised"
    pd_attachments,  \* what rasterize_pdf returned
    pd_requests,     \* what build_llm_requests returned
    pd_client,       \* the RunPodClient of the run: "none", "open", "closed"
    pd_submitted,    \* requests the client has sent to the provider
    pd_result,       \* the list the task returns
    pd_trace         \* the stages entered so far, in order

encVars == <<suffix, images, index, quality, image_bytes, encodings, attachments,
             written, enc_pc, enc_returned, enc_result, enc_error>>

buildVars == <<job, page_atts, build_pc, requests>>

clientVars == <<endpoint, is_serverless, timeout_seconds, poll_interval, cl_requests, req_index,
                results, cl_pc, cl_returned, cl_result, cl_error, job_id,
                poll_attempts, deadline, now, call>>

clampVars == <<image_size, new_size, clamp_pc>>

e2eVars == <<e2e_request, e2e_serverless, e2e_pc, e2e_output, e2e_results>>

concVars == <<cc_now, cc_frames, cc_calls, cc_hist, cc_jobs>>

gwVars == <<gw_store, gw_tasks, gw_upload, gw_clear, gw_qa, gw_queue, gw_worker>>

pdVars == <<pd_job, pd_pc, pd_attachments, pd_requests, pd_client, pd_submitted,
            pd_result, pd_trace>>

vars == <<encVars, buildVars, clientVars, clampVars, e2eVars, concVars, gwVars, pdVars>>

notEncVars == <<buildVars, clientVars, clampVars, e2eVars, concVars, gwVars, pdVars>>

notBuildVars == <<encVars, clientVars, clampVars, e2eVars, concVars, gwVars, pdVars>>

notClientVars == <<encVars, buildVars, clampVars, e2eVars, concVars, gwVars, pdVars>>

notClampVars == <<encVars, buildVars, clientVars, e2eVars, concVars, gwVars, pdVars>>

notE2eVars == <<encVars, buildVars, clientVars, clampVars, concVars, gwVars, pdVars>>

notConcVars == <<encVars, buildVars, clientVars, clampVars, e2eVars, gwVars, pdVars>>

notGwVars == <<encVars, buildVars, clientVars, clampVars, e2eVars, concVars, pdVars>>

notPdVars == <<encVars, buildVars, clientVars, clampVars, e2eVars, concVars, gwVars>>

-----------------------------------------------------------------------------
(* Small helpers *)

Max2(a, b) == IF a >= b THEN a ELSE b

Min2(a, b) == IF a <= b THEN a ELSE b

SeqsUpTo(S, n) == UNION {[1..k -> S] : k \in 0..n}

NoError == [kind |-> "none"]

-----------------------------------------------------------------------------
(* Attachment encoder *)

MAX_BODY_BYTES == 7 * 1024 * 1024

INITIAL_JPEG_QUALITY == 85

MIN_JPEG_QUALITY == 45

QualityStep == 10

\* Bounds of the encoder model
MaxPages == 3

PageIds == {"p", "q"}

Suffixes == {".pdf", ".png", ".txt"}

ImageSuffixes == {".png", ".jpg", ".jpeg", ".webp"}

\* The byte counts _encode_image (Pillow's JPEG encoder) may answer with: the
\* values around the ceiling.  The encoder is a library; which size a page has
\* at which quality is the library's choice, drawn when the page is encoded.
EncodedSizes == {MAX_BODY_BYTES - 1, MAX_BODY_BYTES, MAX_BODY_BYTES + 1}

ExceedsLimitOffByOne(n) == n > MAX_BODY_BYTES + 1

\* len(image_bytes) > MAX_BODY_BYTES
ExceedsLimit(n) == n > MAX_BODY_BYTES

LoopContinuesAboveFloorOnly(n, q) == ExceedsLimit(n) /\ q > MIN_JPEG_QUALITY + QualityStep

\* the while condition of _build_attachment
LoopContinues(n, q) == ExceedsLimit(n) /\ q > MIN_JPEG_QUALITY

NextQualityByTwenty(q) == Max2(MIN_JPEG_QUALITY, q - 2 * QualityStep)

\* quality = max(MIN_JPEG_QUALITY, quality - 10)
NextQuality(q) == Max2(MIN_JPEG_QUALITY, q - QualityStep)

\* filename = f"page-{page_index:04d}.jpg": one name per page index
PageFilename(i) == <<"page", i>>

\* Attachment(filename, "image/jpeg", b64(image_bytes)); the data are the bytes
\* of the encoding of `page` at quality q, n bytes long
AttachmentOf(page, i, q, n) ==
    [filename |-> PageFilename(i), content_type |-> "image/jpeg",
     data |-> [page |-> page, quality |-> q, size |-> n]]

EncInit ==
    /\ suffix \in Suffixes
    /\ images \in SeqsUpTo(PageIds, MaxPages)
    /\ (suffix # ".pdf" => Len(images) = 1)
    /\ index = 0
    /\ quality = INITIAL_JPEG_QUALITY
    /\ image_bytes = 0
    /\ encodings = <<>>
    /\ attachments = <<>>
    /\ written = {}
    /\ enc_pc = "start"
    /\ enc_returned = FALSE
    /\ enc_result = <<>>
    /\ enc_error = NoError

\* rasterize_pdf: dispatch on the suffix
RasterizePdf ==
    /\ enc_pc = "start"
    /\ IF suffix = ".pdf" \/ suffix \in ImageSuffixes
          THEN /\ enc_pc' = "page"
               /\ enc_error' = enc_error
          ELSE /\ enc_pc' = "error"
               /\ enc_error' = [kind |-> "unsupported", suffix |-> suffix]
    /\ UNCHANGED <<suffix, images, index, quality, image_bytes, encodings,
                   attachments, written, enc_returned, enc_result>>
    /\ UNCHANGED notEncVars

\* _build_attachment, first encoding: quality = INITIAL_JPEG_QUALITY
EncodeFirst ==
    /\ enc_pc = "page"
    /\ index < Len(images)
    /\ quality' = INITIAL_JPEG_QUALITY
    /\ \E n \in EncodedSizes :
          /\ image_bytes' = n
          /\ encodings' = <<[quality |-> INITIAL_JPEG_QUALITY, size |-> n]>>
    /\ enc_pc' = "loop"
    /\ UNCHANGED <<suffix, images, index, attachments, written, enc_returned,
                   enc_result, enc_error>>
    /\ UNCHANGED notEncVars

\* _build_attachment, one iteration of the while loop
ReEncode ==
    /\ enc_pc = "loop"
    /\ LoopContinues(image_bytes, quality)
    /\ quality' = NextQuality(quality)
    /\ \E n \in EncodedSizes :
          /\ image_bytes' = n
          /\ encodings' = Append(encodings, [quality |-> NextQuality(quality), size |-> n])
    /\ UNCHANGED <<suffix, images, index, attachments, written, enc_pc,
                   enc_returned, enc_result, enc_error>>
    /\ UNCHANGED notEncVars

\* _build_attachment, the raise after the loop: the exception leaves
\* _rasterize_pdf_document and rasterize_pdf, whose local list is lost
SizeExceeded ==
    /\ enc_pc = "loop"
    /\ ~LoopContinues(image_bytes, quality)
    /\ ExceedsLimit(image_bytes)
    /\ enc_pc' = "error"
    /\ enc_error' = [kind |-> "size_exceeded", page |-> index, bytes |-> image_bytes]
    /\ UNCHANGED <<suffix, images, index, quality, image_bytes, encodings,
                   attachments, written, enc_returned, enc_result>>
    /\ UNCHANGED notEncVars

\* _build_attachment, the return, and the append of its caller
EmitAttachment ==
    /\ enc_pc = "loop"
    /\ ~LoopContinues(image_bytes, quality)
    /\ ~ExceedsLimit(image_bytes)
    /\ written' = written \cup {PageFilename(index)}
    /\ attachments' = Append(attachments,
                             AttachmentOf(images[index + 1], index, quality, image_bytes))
    /\ index' = index + 1
    /\ enc_pc' = "page"
    /\ UNCHANGED <<suffix, images, quality, image_bytes, encodings, enc_returned,
                   enc_result, enc_error>>
    /\ UNCHANGED notEncVars

\* return attachments
ReturnAttachments ==
    /\ enc_pc = "page"
    /\ index = Len(images)
    /\ enc_pc' = "done"
    /\ enc_returned' = TRUE
    /\ enc_result' = attachments
    /\ UNCHANGED <<suffix, images, index, quality, image_bytes, encodings,
                   attachments, written, enc_error>>
    /\ UNCHANGED notEncVars

-----------------------------------------------------------------------------
(* Dimension clamp: _clamp_image_dimensions *)

MAX_IMAGE_PIXELS == 4000000

\* Image sizes: widths and heights around the ceiling's square root, of
\* common page rasters, and of strips one or two pixels high; a size is kept
\* when its pixel count is at most MaxTotalPixels
MaxTotalPixels == 2000000000

Sides ==
    {1, 2, 3, 1000, 1999, 2000, 2001, 2480, 3000, 3508, 4000, 8000,
     3999999, 4000000, 4000001, 4004001, 5000000, 16000000}

ImageSizes ==
    {s \in Sides \X Sides : s[1] <= MaxTotalPixels \div s[2]}

\* a / b <= c / d for naturals with b > 0 and d > 0, by the continued
\* fractions of the two sides, so that no product is formed
RECURSIVE FracLeq(_, _, _, _)
FracLeq(a, b, c, d) ==
    IF a \div b # c \div d THEN a \div b < c \div d
    ELSE IF a % b = 0 THEN TRUE
    ELSE IF c % d = 0 THEN FALSE
    ELSE FracLeq(d, c % d, b, a % b)

\* n <= side * sqrt(MAX_IMAGE_PIXELS / (side * other)), that is
\* n * n * other <= MAX_IMAGE_PIXELS * side
AtMostScaled(n, side, other) ==
    n = 0 \/ FracLeq(n, side, MAX_IMAGE_PIXELS, n * other)

\* n = side * sqrt(MAX_IMAGE_PIXELS / (side * other)) exactly
IsScaled(n, side, other) ==
    n > 0 /\ FracLeq(n, side, MAX_IMAGE_PIXELS, n * other)
          /\ FracLeq(MAX_IMAGE_PIXELS, n * other, n, side)

\* the largest n in lo..hi with AtMostScaled(n, side, other)
RECURSIVE LargestScaled(_, _, _, _)
LargestScaled(lo, hi, side, other) ==
    IF lo >= hi THEN lo
    ELSE LET mid == (lo + hi + 1) \div 2
         IN  IF AtMostScaled(mid, side, other)
                THEN LargestScaled(mid, hi, side, other)
                ELSE LargestScaled(lo, mid - 1, side, other)

\* int(side * scale) with scale = sqrt(MAX_IMAGE_PIXELS / total_pixels) < 1:
\* the whole part of the product.  Where the product is a whole number the
\* rounding of the floating-point quotient, root and product decides whether
\* int() sees that number or a value just below it.
TruncatedScaled(side, other) ==
    LET n == LargestScaled(0, side, side, other)
    IN  IF IsScaled(n, side, other) THEN {n - 1, n} ELSE {n}

\* the sizes _clamp_image_dimensions may return for an image of width x height
ClampImageDimensions(width, height) ==
    IF width * height <= MAX_IMAGE_PIXELS
       THEN {<<width, height>>}
       ELSE {<<Max2(1, w), Max2(1, h)>> :
                w \in TruncatedScaled(width, height),
                h \in TruncatedScaled(height, width)}

ClampInit ==
    /\ image_size \in ImageSizes
    /\ new_size = image_size
    /\ clamp_pc = "start"

\* _clamp_image_dimensions(image)
ClampImage ==
    /\ clamp_pc = "start"
    /\ new_size' \in ClampImageDimensions(image_size[1], image_size[2])
    /\ clamp_pc' = "done"
    /\ UNCHANGED image_size
    /\ UNCHANGED notClampVars

-----------------------------------------------------------------------------
(* Prompt builder *)

\* class TaskType
TaskType == {"layout", "rooms", "annotations", "qa", "compare"}

\* A task value outside the catalogue of base_prompts: the case the lookup's
\* miss branch (lines 175-178) handles
UnknownTask == "legend"

NoPrompt == ""

\* base_prompts.get(task): the template of a known kind, None for any other
BasePrompts(task) ==
    IF task \in TaskType THEN "template:" \o task ELSE NoPrompt

\* Bounds of the builder model
MaxTasks == 2

JobTaskLists == SeqsUpTo(TaskType \cup {UnknownTask}, MaxTasks)

DocumentJob(tasks) == [id |-> "job-a", filename |-> "plan.pdf", tasks |-> tasks]

\* n attachments as the encoder returns them for an n-page document
PageAttachments(n) ==
    [i \in 1..n |-> AttachmentOf("p", i - 1, INITIAL_JPEG_QUALITY, MAX_BODY_BYTES)]

\* the inner loop with break in place of continue
RECURSIVE PromptsUntilUnknown(_, _)
PromptsUntilUnknown(tasks, k) ==
    IF k > Len(tasks) THEN <<>>
    ELSE LET prompt == BasePrompts(tasks[k])
         IN  IF prompt = NoPrompt
                THEN <<>>
                ELSE <<[task |-> tasks[k], prompt |-> prompt]>>
                     \o PromptsUntilUnknown(tasks, k + 1)

\* the inner loop over job.tasks: the prompts of the tasks that have a template
RECURSIVE PromptsFrom(_, _)
PromptsFrom(tasks, k) ==
    IF k > Len(tasks) THEN <<>>
    ELSE LET prompt == BasePrompts(tasks[k])
         IN  IF prompt = NoPrompt
                THEN PromptsFrom(tasks, k + 1)
                ELSE <<[task |-> tasks[k], prompt |-> prompt]>> \o PromptsFrom(tasks, k + 1)

NeverSkipPage(prompts) == FALSE

\* if not prompts: continue
SkipPage(prompts) == prompts = <<>>

LLMBatchRequestFirstPage(j, page_index, prompts, attachment) ==
    [document_id |-> j.id, page_indices |-> <<0>>, tasks |-> prompts,
     attachments |-> <<attachment>>, context |-> [filename |-> j.filename]]

\* LLMBatchRequest(document_id, page_indices, tasks, attachments, context)
LLMBatchRequest(j, page_index, prompts, attachment) ==
    [document_id |-> j.id, page_indices |-> <<page_index>>, tasks |-> prompts,
     attachments |-> <<attachment>>, context |-> [filename |-> j.filename]]

\* the outer loop over enumerate(attachments), from page_index on
RECURSIVE RequestsFrom(_, _, _)
RequestsFrom(j, atts, page_index) ==
    IF page_index >= Len(atts) THEN <<>>
    ELSE LET prompts == PromptsFrom(j.tasks, 1)
         IN  IF SkipPage(prompts)
                THEN RequestsFrom(j, atts, page_index + 1)
                ELSE <<LLMBatchRequest(j, page_index, prompts, atts[page_index + 1])>>
                     \o RequestsFrom(j, atts, page_index + 1)

\* build_llm_requests(job, attachments)
BuildLLMRequests(j, atts) ==
    IF j.tasks = <<>> THEN <<>> ELSE RequestsFrom(j, atts, 0)

BuildInit ==
    /\ job \in {DocumentJob(t) : t \in JobTaskLists}
    /\ page_atts \in {PageAttachments(n) : n \in 0..MaxPages}
    /\ build_pc = "start"
    /\ requests = <<>>

BuildRequests ==
    /\ build_pc = "start"
    /\ requests' = BuildLLMRequests(job, page_atts)
    /\ build_pc' = "done"
    /\ UNCHANGED <<job, page_atts>>
    /\ UNCHANGED notBuildVars

-----------------------------------------------------------------------------
(* Inference client: configuration and provider answers *)

\* max(0.2, settings.runpod_poll_interval_seconds): the floor, in ticks of 0.1 s
MinPollInterval == 2

\* delay = min(5.0, 1.0 + poll_attempts * 0.5), in ticks of 0.1 s
BackoffCap == 50

BackoffBase == 10

BackoffStep == 5

\* Bounds of the client model: polls per call, requests per batch, entries
\* per provider collection
MaxPolls == 4

RequestCounts == {0, 1, 2}

EntryCounts == {0, 1, 2}

\* settings.runpod_serverless_timeout_seconds (0: no deadline) and
\* settings.runpod_poll_interval_seconds, in ticks
TimeoutSettings == {0, 20}

PollIntervalSettings == {0, 8}

\* how long one HTTP round trip may take, in ticks
Latencies == {0, 3}

ClientTaskLists == {<<"rooms", "layout">>}

TransientWithout504 == {429, 500, 502, 503}

\* the statuses the poll loop retries
TransientStatuses == {429, 500, 502, 503, 504}

HttpStatuses == {200, 401, 403, 404} \cup {429, 500, 502, 503, 504}

IsSuccessBelow500(code) == code \in 200..499

\* response.raise_for_status() does not raise
IsSuccess(code) == code \in 200..299

NoTask == "<absent>"

\* what an entry's "task" field may hold: a known kind of the request, a known
\* kind the request did not ask for, an unknown string, nothing
RawTasks == {"layout", "qa", "bogus", NoTask}

\* one element of a JSON array: an object with a task field, or a scalar
Entries == [type : {"dict"}, task : RawTasks] \cup {[type |-> "scalar", task |-> NoTask]}

EntryLists == UNION {[1..k -> Entries] : k \in EntryCounts}

\* a JSON value as _build_responses reads it: null, a scalar, an array of
\* entries, an object with a task field, an object with a "responses" array
Payload(type, task, has_responses, items) ==
    [type |-> type, task |-> task, has_responses |-> has_responses, items |-> items]

EmptyObject == Payload("dict", NoTask, FALSE, <<>>)

Payloads ==
    {Payload("null", NoTask, FALSE, <<>>), Payload("scalar", NoTask, FALSE, <<>>)}
    \cup {Payload("list", NoTask, FALSE, l) : l \in EntryLists}
    \cup {Payload("dict", t, FALSE, <<>>) : t \in RawTasks}
    \cup {Payload("dict", NoTask, TRUE, l) : l \in EntryLists}

NoStatus == "<absent>"

JobStatuses == {"COMPLETED", "FAILED", "CANCELLED", "IN_PROGRESS", "ARCHIVED", NoStatus}

NoText == "<absent>"

ErrorTexts == {"bad image", NoText}

NoJob == "<none>"

\* job_info.get("id"): an id, or nothing
JobIds == {"job-1", NoJob}

\* len(body_text) > 1000
BodyPreviewLimit == 1000

\* the text of an error response: `chars` characters between `padding`
\* characters of surrounding whitespace
Bodies ==
    {[chars |-> 0, padding |-> 0], [chars |-> 0, padding |-> 2],
     [chars |-> BodyPreviewLimit, padding |-> 2],
     [chars |-> BodyPreviewLimit + 1, padding |-> 0]}

RunPodHost == "api.runpod.ai"

\* settings.runpod_endpoint: a host, the segments of the path after it, and
\* whether the text ends with a slash
ConfiguredEndpoints ==
    {[host |-> "runpod-worker:8000", path |-> <<>>, slash |-> FALSE],
     [host |-> "runpod-worker:8000", path |-> <<"run">>, slash |-> TRUE],
     [host |-> RunPodHost, path |-> <<"v2", "ep">>, slash |-> FALSE],
     [host |-> RunPodHost, path |-> <<"v2", "ep", "run">>, slash |-> FALSE],
     [host |-> RunPodHost, path |-> <<"v2", "ep", "run">>, slash |-> TRUE]}

-----------------------------------------------------------------------------
(* Inference client: pure parts *)

\* _normalize_task: a valid TaskType value is kept, anything else becomes the
\* request's first task (LAYOUT for a request without tasks)
NormalizeTask(raw_task, request) ==
    IF raw_task \in TaskType THEN raw_task
    ELSE IF request.tasks # <<>> THEN request.tasks[1].task ELSE "layout"

\* LLMResponse(...); `req` is the position of the request it was built for
LLMResponse(entry, request, k) ==
    [document_id |-> request.document_id, task |-> NormalizeTask(entry.task, request),
     req |-> k]

\* the loop over entries of _build_responses, from entry i on
RECURSIVE ResponsesFrom(_, _, _, _)
ResponsesFrom(entries, i, request, k) ==
    IF i > Len(entries) THEN <<>>
    ELSE IF entries[i].type # "dict"
            THEN ResponsesFrom(entries, i + 1, request, k)
            ELSE <<LLMResponse(entries[i], request, k)>>
                 \o ResponsesFrom(entries, i + 1, request, k)

\* _build_responses(payload, request): the responses, or the exception
BuildResponses(payload, request, k) ==
    CASE payload.type = "null" ->
            [ok |-> FALSE, error |-> [kind |-> "empty_payload"], responses |-> <<>>]
      [] payload.type = "scalar" ->
            [ok |-> FALSE, error |-> [kind |-> "attribute_error"], responses |-> <<>>]
      [] payload.type = "list" ->
            [ok |-> TRUE, error |-> NoError,
             responses |-> ResponsesFrom(payload.items, 1, request, k)]
      [] OTHER ->
            [ok |-> TRUE, error |-> NoError,
             responses |->
                IF payload.has_responses
                   THEN ResponsesFrom(payload.items, 1, request, k)
                   ELSE ResponsesFrom(<<[type |-> "dict", task |-> payload.task]>>,
                                      1, request, k)]

UnwrapOutputKeepingList(output) == output

\* if isinstance(output, list): output = output[0] if output else {}
UnwrapOutput(output) ==
    IF output.type = "list"
       THEN IF output.items # <<>>
               THEN Payload(output.items[1].type, output.items[1].task, FALSE, <<>>)
               ELSE EmptyObject
       ELSE output

\* tasks_repr / task_names: [task.task for task in request.tasks]
TaskNames(request) == [i \in 1..Len(request.tasks) |-> request.tasks[i].task]

\* exc.response.text.strip(): the surrounding whitespace is dropped
Strip(body) == [chars |-> body.chars]

\* body_text[:1000] + "…" if len(body_text) > 1000, else body_text or "<empty body>"
BodyPreview(body_text) ==
    IF body_text.chars > BodyPreviewLimit
       THEN [chars |-> BodyPreviewLimit, ellipsis |-> TRUE, placeholder |-> FALSE]
       ELSE [chars |-> body_text.chars, ellipsis |-> FALSE,
             placeholder |-> body_text.chars = 0]

CredentialHintFor401Only(code) == code = 401

\* hint is set for status_code 401 and for 403
CredentialHint(code) == code = 401 \/ code = 403

\* _format_http_error: the parts of the message
FormatHttpError(code, body, request, action) ==
    [kind |-> "http", action |-> action, code |-> code,
     document_id |-> request.document_id, tasks |-> TaskNames(request),
     pages |-> request.page_indices, body_preview |-> BodyPreview(Strip(body)),
     hint |-> CredentialHint(code)]

HasJobIdAlways(id) == TRUE

\* if not job_id: raise RuntimeError("RunPod response missing job id")
HasJobId(id) == id # NoJob

\* "api.runpod.ai" in endpoint
IsRunPodEndpoint(e) == e.host = RunPodHost

\* configured_endpoint.endswith("/run")
EndsWithRun(e) == ~e.slash /\ e.path # <<>> /\ e.path[Len(e.path)] = "run"

\* __init__: rstrip("/"), then a trailing /run is dropped from a RunPod URL
EndpointOf(configured) ==
    LET stripped == [configured EXCEPT !.slash = FALSE]
    IN  IF EndsWithRun(stripped) /\ IsRunPodEndpoint(stripped)
           THEN [stripped EXCEPT !.path = SubSeq(@, 1, Len(@) - 1)]
           ELSE stripped

BackoffDelayUncapped(attempts) == BackoffBase + attempts * BackoffStep

BackoffDelay(attempts) == Min2(BackoffCap, BackoffBase + attempts * BackoffStep)

HasDeadline == timeout_seconds # 0

DeadlineNeverChecked == FALSE

\* if deadline and time.monotonic() >= deadline
DeadlinePassed == HasDeadline /\ now >= deadline

DeadlineFromCallStart(t) == IF HasDeadline THEN timeout_seconds ELSE 0

\* deadline = time.monotonic() + self._timeout_seconds if self._timeout_seconds else None
DeadlineFrom(t) == IF HasDeadline THEN t + timeout_seconds ELSE 0

SleepForUnclipped(delay, t) == delay

\* sleep_for = max(0.0, min(delay, deadline - time.monotonic())) with a deadline
SleepFor(delay, t) ==
    IF HasDeadline THEN Max2(0, Min2(delay, deadline - t)) ELSE delay

CompletedOrInProgress(status) == status \in {"COMPLETED", "IN_PROGRESS"}

\* status == "COMPLETED"
IsCompleted(status) == status = "COMPLETED"

IsFailedOnly(status) == status = "FAILED"

IsFailedUnlessKnownPending(status) == status \notin {"COMPLETED", "IN_PROGRESS"}

\* status in {"FAILED", "CANCELLED"}
IsFailed(status) == status \in {"FAILED", "CANCELLED"}

-----------------------------------------------------------------------------
(* Inference client: submit_batch, submit, _submit_serverless *)

\* what a provider answer offers: its JSON type, whether it has a "responses"
\* array, how many entries its collection holds and how many of them are objects
Offered(payload) ==
    [type |-> payload.type, has_responses |-> payload.has_responses,
     entries |-> Len(payload.items),
     dicts |-> Cardinality({i \in 1..Len(payload.items) : payload.items[i].type = "dict"})]

\* the class of an HTTP status: success, one of the five retryable statuses,
\* any other status
HttpClass(code) ==
    IF code \in 200..299 THEN "success"
    ELSE IF code \in {429, 500, 502, 503, 504} THEN "retryable" ELSE "other"

\* the history of one submit call: requests sent, answers received, the
\* stripped length of an error body, the duration of the last sleep
NewCall ==
    [posts_run |-> 0, posts_analyze |-> 0, gets |-> 0, nonterminal |-> 0,
     transient |-> 0, http |-> "none", status |-> NoStatus, error_text |-> NoText,
     offered |-> Offered(EmptyObject), outcome |-> "running", results |-> <<>>,
     body_chars |-> 0, slept |-> 0]

CurrentRequest == cl_requests[req_index]

\* RunPodClient.__init__ has run.  The two settings it reads,
\* runpod_serverless_timeout_seconds and runpod_poll_interval_seconds, are not
\* declared by shared/config.py; their values are drawn from TimeoutSettings
\* and PollIntervalSettings.  Time is counted in ticks of 0.1 s from the moment
\* submit is called.
ClientInit ==
    /\ endpoint \in {EndpointOf(e) : e \in ConfiguredEndpoints}
    /\ is_serverless = IsRunPodEndpoint(endpoint)
    /\ timeout_seconds \in {Max2(0, s) : s \in TimeoutSettings}
    /\ poll_interval \in {Max2(MinPollInterval, s) : s \in PollIntervalSettings}
    /\ cl_requests \in {BuildLLMRequests(DocumentJob(t), PageAttachments(n)) :
                           t \in ClientTaskLists, n \in RequestCounts}
    /\ req_index = 0
    /\ results = <<>>
    /\ cl_pc = "batch"
    /\ cl_returned = FALSE
    /\ cl_result = <<>>
    /\ cl_error = NoError
    /\ job_id = NoJob
    /\ poll_attempts = 0
    /\ deadline = 0
    /\ now = 0
    /\ call = NewCall

\* an exception leaves submit (and submit_batch, which re-raises it): nothing
\* is returned, the local list `results` is not handed to anyone
Raise(err) ==
    /\ cl_pc' = "raised"
    /\ cl_error' = err
    /\ UNCHANGED <<results, cl_returned, cl_result>>

ReturnFromSubmitPrepending(responses) ==
    /\ cl_pc' = "batch"
    /\ results' = responses \o results
    /\ UNCHANGED <<cl_returned, cl_result, cl_error>>

\* submit returns: results.extend(result), back to the for loop
ReturnFromSubmit(responses) ==
    /\ cl_pc' = "batch"
    /\ results' = results \o responses
    /\ UNCHANGED <<cl_returned, cl_result, cl_error>>

clientConfig == <<endpoint, is_serverless, timeout_seconds, poll_interval, cl_requests>>

SubmitEntryAlwaysDirect == "analyze"

\* submit: if self._is_serverless: return await self._submit_serverless(request)
SubmitEntry == IF is_serverless THEN "run" ELSE "analyze"

\* submit_batch: the for loop takes the next request and calls submit
SubmitNext ==
    /\ cl_pc = "batch"
    /\ req_index < Len(cl_requests)
    /\ req_index' = req_index + 1
    /\ cl_pc' = SubmitEntry
    /\ job_id' = NoJob
    /\ poll_attempts' = 0
    /\ deadline' = 0
    /\ call' = NewCall
    /\ now' = 0
    /\ UNCHANGED <<results, cl_returned, cl_result, cl_error>>
    /\ UNCHANGED clientConfig
    /\ UNCHANGED notClientVars

\* submit_batch: return results
BatchReturn ==
    /\ cl_pc = "batch"
    /\ req_index = Len(cl_requests)
    /\ cl_pc' = "returned"
    /\ cl_returned' = TRUE
    /\ cl_result' = results
    /\ call' = NewCall
    /\ UNCHANGED <<results, cl_error, req_index, job_id, poll_attempts, deadline, now>>
    /\ UNCHANGED clientConfig
    /\ UNCHANGED notClientVars

\* submit, direct protocol: POST /analyze answers 2xx with a JSON body
PostAnalyzeOk ==
    /\ cl_pc = "analyze"
    /\ \E lat \in Latencies, code \in HttpStatuses, payload \in Payloads :
          LET built == BuildResponses(payload, CurrentRequest, req_index)
          IN  /\ IsSuccess(code)
              /\ now' = now + lat
              /\ call' = [call EXCEPT !.posts_analyze = @ + 1, !.http = HttpClass(code),
                                      !.offered = Offered(payload),
                                      !.outcome = IF built.ok THEN "returned" ELSE "raised",
                                      !.results = built.responses]
              /\ IF built.ok THEN ReturnFromSubmit(built.responses)
                             ELSE Raise(built.error)
    /\ UNCHANGED <<req_index, job_id, poll_attempts, deadline>>
    /\ UNCHANGED clientConfig
    /\ UNCHANGED notClientVars

\* submit, direct protocol: POST /analyze answers non-2xx (_ensure_success)
PostAnalyzeHttpError ==
    /\ cl_pc = "analyze"
    /\ \E lat \in Latencies, code \in HttpStatuses, body \in Bodies :
          /\ ~IsSuccess(code)
          /\ now' = now + lat
          /\ call' = [call EXCEPT !.body_chars = Strip(body).chars, !.posts_analyze = @ + 1, !.http = HttpClass(code),
                                  !.outcome = "raised"]
          /\ Raise(FormatHttpError(code, body, CurrentRequest, "POST /analyze"))
    /\ UNCHANGED <<req_index, job_id, poll_attempts, deadline>>
    /\ UNCHANGED clientConfig
    /\ UNCHANGED notClientVars

\* _submit_serverless: POST /run answers 2xx with a job id; poll_attempts = 0
\* and the deadline are set
PostRunAccepted ==
    /\ cl_pc = "run"
    /\ \E lat \in Latencies, code \in HttpStatuses, id \in JobIds :
          /\ IsSuccess(code)
          /\ HasJobId(id)
          /\ now' = now + lat
          /\ deadline' = DeadlineFrom(now + lat)
          /\ call' = [call EXCEPT !.posts_run = @ + 1, !.http = HttpClass(code)]
          /\ job_id' = id
    /\ poll_attempts' = 0
    /\ cl_pc' = "poll"
    /\ UNCHANGED <<results, cl_returned, cl_result, cl_error, req_index>>
    /\ UNCHANGED clientConfig
    /\ UNCHANGED notClientVars

\* _submit_serverless: POST /run answers 2xx without a job id
PostRunMissingId ==
    /\ cl_pc = "run"
    /\ \E lat \in Latencies, code \in HttpStatuses, id \in JobIds :
          /\ IsSuccess(code)
          /\ ~HasJobId(id)
          /\ now' = now + lat
          /\ call' = [call EXCEPT !.posts_run = @ + 1, !.http = HttpClass(code),
                                  !.outcome = "raised"]
    /\ Raise([kind |-> "missing_job_id"])
    /\ UNCHANGED <<req_index, job_id, poll_attempts, deadline>>
    /\ UNCHANGED clientConfig
    /\ UNCHANGED notClientVars

\* _submit_serverless: POST /run answers non-2xx (_ensure_success)
PostRunHttpError ==
    /\ cl_pc = "run"
    /\ \E lat \in Latencies, code \in HttpStatuses, body \in Bodies :
          /\ ~IsSuccess(code)
          /\ now' = now + lat
          /\ call' = [call EXCEPT !.body_chars = Strip(body).chars, !.posts_run = @ + 1, !.http = HttpClass(code), !.outcome = "raised"]
          /\ Raise(FormatHttpError(code, body, CurrentRequest, "POST /run"))
    /\ UNCHANGED <<req_index, job_id, poll_attempts, deadline>>
    /\ UNCHANGED clientConfig
    /\ UNCHANGED notClientVars

\* the poll loop: the deadline check at the head of an iteration fails
PollTimeout ==
    /\ cl_pc = "poll"
    /\ DeadlinePassed
    /\ call' = [call EXCEPT !.outcome = "raised"]
    /\ Raise([kind |-> "timeout", job_id |-> job_id, timeout |-> timeout_seconds,
              tasks |-> TaskNames(CurrentRequest),
              pages |-> CurrentRequest.page_indices])
    /\ UNCHANGED <<req_index, job_id, poll_attempts, deadline, now>>
    /\ UNCHANGED clientConfig
    /\ UNCHANGED notClientVars

\* the poll loop goes on to poll_attempts += 1 and GET /status/<job_id>
\* (the model stops a call after MaxPolls polls)
CanPoll == cl_pc = "poll" /\ ~DeadlinePassed /\ poll_attempts < MaxPolls

\* one iteration: GET /status answers with a transient status; the client
\* sleeps the backoff delay and continues
PollTransient ==
    /\ CanPoll
    /\ poll_attempts' = poll_attempts + 1
    /\ \E lat \in Latencies, code \in HttpStatuses :
          /\ ~IsSuccess(code)
          /\ code \in TransientStatuses
          /\ now' = now + lat + SleepFor(BackoffDelay(poll_attempts + 1), now + lat)
          /\ call' = [call EXCEPT !.slept = SleepFor(BackoffDelay(poll_attempts + 1), now + lat),
                                  !.gets = @ + 1, !.http = HttpClass(code), !.transient = @ + 1]
    /\ UNCHANGED <<results, cl_pc, cl_returned, cl_result, cl_error, req_index,
                   job_id, deadline>>
    /\ UNCHANGED clientConfig
    /\ UNCHANGED notClientVars

\* one iteration: GET /status answers with another non-2xx status
PollHttpError ==
    /\ CanPoll
    /\ poll_attempts' = poll_attempts + 1
    /\ \E lat \in Latencies, code \in HttpStatuses, body \in Bodies :
          /\ ~IsSuccess(code)
          /\ code \notin TransientStatuses
          /\ now' = now + lat
          /\ call' = [call EXCEPT !.body_chars = Strip(body).chars, !.gets = @ + 1, !.http = HttpClass(code), !.outcome = "raised"]
          /\ Raise(FormatHttpError(code, body, CurrentRequest, "GET /status"))
    /\ UNCHANGED <<req_index, job_id, deadline>>
    /\ UNCHANGED clientConfig
    /\ UNCHANGED notClientVars

\* one iteration: GET /status answers 2xx with a status the client takes for
\* COMPLETED; the output is unwrapped and handed to _build_responses
PollCompleted ==
    /\ CanPoll
    /\ poll_attempts' = poll_attempts + 1
    /\ \E lat \in Latencies, status \in JobStatuses, output \in Payloads :
          LET built == BuildResponses(UnwrapOutput(output), CurrentRequest, req_index)
          IN  /\ IsCompleted(status)
              /\ now' = now + lat
              /\ call' = [call EXCEPT !.gets = @ + 1, !.http = HttpClass(200), !.status = status, !.offered = Offered(output),
                                      !.nonterminal =
                                          IF status \in {"COMPLETED", "FAILED", "CANCELLED"}
                                             THEN @ ELSE @ + 1,
                                      !.outcome = IF built.ok THEN "returned" ELSE "raised",
                                      !.results = built.responses]
              /\ IF built.ok THEN ReturnFromSubmit(built.responses)
                             ELSE Raise(built.error)
    /\ UNCHANGED <<req_index, job_id, deadline>>
    /\ UNCHANGED clientConfig
    /\ UNCHANGED notClientVars

\* one iteration: GET /status answers 2xx with a status the client takes for
\* FAILED or CANCELLED
PollFailed ==
    /\ CanPoll
    /\ poll_attempts' = poll_attempts + 1
    /\ \E lat \in Latencies, status \in JobStatuses, text \in ErrorTexts :
          /\ ~IsCompleted(status)
          /\ IsFailed(status)
          /\ now' = now + lat
          /\ call' = [call EXCEPT !.gets = @ + 1, !.http = HttpClass(200), !.status = status, !.error_text = text,
                                  !.outcome = "raised"]
          /\ Raise([kind |-> "job_failed", job_id |-> job_id,
                    text |-> IF text = NoText THEN "Unknown error" ELSE text])
    /\ UNCHANGED <<req_index, job_id, deadline>>
    /\ UNCHANGED clientConfig
    /\ UNCHANGED notClientVars

\* one iteration: GET /status answers 2xx with any other status (or none);
\* the client sleeps the poll interval and goes round the loop
PollPending ==
    /\ CanPoll
    /\ poll_attempts' = poll_attempts + 1
    /\ \E lat \in Latencies, status \in JobStatuses :
          /\ ~IsCompleted(status)
          /\ ~IsFailed(status)
          /\ now' = now + lat + SleepFor(poll_interval, now + lat)
          /\ call' = [call EXCEPT !.slept = SleepFor(poll_interval, now + lat),
                                  !.gets = @ + 1, !.http = HttpClass(200), !.status = status,
                                  !.nonterminal =
                                      IF status \in {"COMPLETED", "FAILED", "CANCELLED"}
                                         THEN @ ELSE @ + 1]
    /\ UNCHANGED <<results, cl_pc, cl_returned, cl_result, cl_error, req_index,
                   job_id, deadline>>
    /\ UNCHANGED clientConfig
    /\ UNCHANGED notClientVars

-----------------------------------------------------------------------------
(* Inference client: submit calls of several coroutines on one RunPodClient.
   The coroutines run on one event loop and are interleaved at their awaits:
   the POST, each GET, each sleep. *)

CallIds == {"A", "B"}

\* Bounds of the concurrency model: polls per call, the clock, and how far
\* the clock moves in one step
MaxConcPolls == 2

MaxClock == 24

ClockStep == 8

SharedFrame(c) == "A"

\* job_id, poll_attempts and deadline are local variables of
\* _submit_serverless: each call has its own
Frame(c) == c

NewFrame == [job_id |-> NoJob, poll_attempts |-> 0, deadline |-> 0]

NewConcCall(r) == [pc |-> "idle", request |-> r, wake |-> 0, results |-> <<>>, error |-> "none"]

NewConcHist ==
    [job |-> NoJob, accepted_at |-> 0, gets |-> 0, polled |-> {}, answered |-> NoJob,
     slept_at |-> 0, slept_for |-> "none"]

\* the id the provider gives its n-th job
JobName(n) == <<"job", n>>

\* max(0.0, min(delay, deadline - time.monotonic())) for the deadline dl
ClippedSleep(delay, t, dl) ==
    IF HasDeadline THEN Max2(0, Min2(delay, dl - t)) ELSE delay

\* call A submits the first request of the batch, call B the second
ConcRequestOf(c) == IF c = "A" THEN 1 ELSE 2

\* the outputs a COMPLETED job may carry: an array of result objects
ConcOutputs == {p \in Payloads : p.type = "list" /\ Len(p.items) = 1}

ConcInit ==
    /\ cc_now = 0
    /\ cc_frames = [f \in CallIds |-> NewFrame]
    /\ cc_calls = [c \in CallIds |-> NewConcCall(ConcRequestOf(c))]
    /\ cc_hist = [c \in CallIds |-> NewConcHist]
    /\ cc_jobs = <<>>

\* the client the calls share: a serverless client, two requests built
ConcClientInit ==
    /\ endpoint = EndpointOf([host |-> RunPodHost, path |-> <<"v2", "ep", "run">>, slash |-> FALSE])
    /\ is_serverless = IsRunPodEndpoint(endpoint)
    /\ timeout_seconds \in {Max2(0, s) : s \in TimeoutSettings}
    /\ poll_interval \in {Max2(MinPollInterval, s) : s \in PollIntervalSettings}
    /\ cl_requests \in {BuildLLMRequests(DocumentJob(t), PageAttachments(2)) :
                           t \in ClientTaskLists}
    /\ req_index = 0
    /\ results = <<>>
    /\ cl_pc = "idle"
    /\ cl_returned = FALSE
    /\ cl_result = <<>>
    /\ cl_error = NoError
    /\ job_id = NoJob
    /\ poll_attempts = 0
    /\ deadline = 0
    /\ now = 0
    /\ call = NewCall

ConcFrameOf(c) == cc_frames[Frame(c)]

\* time passes while every coroutine is waiting
ConcAdvance ==
    /\ cc_now < MaxClock
    /\ \E c \in CallIds : cc_calls[c].pc \in {"run", "get", "sleep"}
    /\ cc_now' = cc_now + ClockStep
    /\ UNCHANGED <<cc_frames, cc_calls, cc_hist, cc_jobs>>
    /\ UNCHANGED notConcVars

\* submit -> _submit_serverless: the call sends POST /run and awaits the answer
ConcSubmit(c) ==
    /\ cc_calls[c].pc = "idle"
    /\ is_serverless
    /\ cc_calls' = [cc_calls EXCEPT ![c].pc = "run"]
    /\ UNCHANGED <<cc_now, cc_frames, cc_hist, cc_jobs>>
    /\ UNCHANGED notConcVars

\* POST /run answers 2xx with the id of the job the provider created for it:
\* job_id, deadline, poll_attempts = 0
ConcRunAccepted(c) ==
    /\ cc_calls[c].pc = "run"
    /\ LET id == JobName(Len(cc_jobs) + 1)
       IN  /\ cc_jobs' = Append(cc_jobs, c)
           /\ cc_frames' = [cc_frames EXCEPT ![Frame(c)] =
                               [job_id |-> id, poll_attempts |-> 0,
                                deadline |-> DeadlineFrom(cc_now)]]
           /\ cc_hist' = [cc_hist EXCEPT ![c].job = id, ![c].accepted_at = cc_now]
    /\ cc_calls' = [cc_calls EXCEPT ![c].pc = "loop"]
    /\ UNCHANGED cc_now
    /\ UNCHANGED notConcVars

\* POST /run answers non-2xx, or 2xx without a job id: the call raises
ConcRunRejected(c) ==
    /\ cc_calls[c].pc = "run"
    /\ \E kind \in {"http", "missing_job_id"} :
          cc_calls' = [cc_calls EXCEPT ![c].pc = "raised", ![c].error = kind]
    /\ UNCHANGED <<cc_now, cc_frames, cc_hist, cc_jobs>>
    /\ UNCHANGED notConcVars

\* head of the loop: if deadline and time.monotonic() >= deadline: raise
ConcTimeout(c) ==
    /\ cc_calls[c].pc = "loop"
    /\ HasDeadline /\ cc_now >= ConcFrameOf(c).deadline
    /\ cc_calls' = [cc_calls EXCEPT ![c].pc = "raised", ![c].error = "timeout"]
    /\ UNCHANGED <<cc_now, cc_frames, cc_hist, cc_jobs>>
    /\ UNCHANGED notConcVars

\* poll_attempts += 1 and GET /status/<job_id> is sent
ConcSendGet(c) ==
    /\ cc_calls[c].pc = "loop"
    /\ ~(HasDeadline /\ cc_now >= ConcFrameOf(c).deadline)
    /\ ConcFrameOf(c).poll_attempts < MaxConcPolls
    /\ cc_frames' = [cc_frames EXCEPT ![Frame(c)].poll_attempts = @ + 1]
    /\ cc_hist' = [cc_hist EXCEPT ![c].gets = @ + 1,
                                  ![c].polled = @ \cup {ConcFrameOf(c).job_id}]
    /\ cc_calls' = [cc_calls EXCEPT ![c].pc = "get"]
    /\ UNCHANGED <<cc_now, cc_jobs>>
    /\ UNCHANGED notConcVars

\* the GET answers with a transient status: sleep the backoff delay
ConcGetTransient(c) ==
    /\ cc_calls[c].pc = "get"
    /\ LET sleep_for == ClippedSleep(BackoffDelay(ConcFrameOf(c).poll_attempts),
                                     cc_now, ConcFrameOf(c).deadline)
       IN  /\ cc_calls' = [cc_calls EXCEPT ![c].pc = "sleep", ![c].wake = cc_now + sleep_for]
           /\ cc_hist' = [cc_hist EXCEPT ![c].slept_at = cc_now, ![c].slept_for = "backoff"]
    /\ UNCHANGED <<cc_now, cc_frames, cc_jobs>>
    /\ UNCHANGED notConcVars

\* the GET answers 2xx with a status that is neither COMPLETED nor FAILED nor
\* CANCELLED: sleep the poll interval
ConcGetPending(c) ==
    /\ cc_calls[c].pc = "get"
    /\ LET sleep_for == ClippedSleep(poll_interval, cc_now, ConcFrameOf(c).deadline)
       IN  /\ cc_calls' = [cc_calls EXCEPT ![c].pc = "sleep", ![c].wake = cc_now + sleep_for]
           /\ cc_hist' = [cc_hist EXCEPT ![c].slept_at = cc_now, ![c].slept_for = "interval"]
    /\ UNCHANGED <<cc_now, cc_frames, cc_jobs>>
    /\ UNCHANGED notConcVars

\* asyncio.sleep(sleep_for) is over: continue with the next iteration
ConcWake(c) ==
    /\ cc_calls[c].pc = "sleep"
    /\ cc_now >= cc_calls[c].wake
    /\ cc_calls' = [cc_calls EXCEPT ![c].pc = "loop", ![c].wake = 0]
    /\ cc_hist' = [cc_hist EXCEPT ![c].slept_at = 0, ![c].slept_for = "none"]
    /\ UNCHANGED <<cc_now, cc_frames, cc_jobs>>
    /\ UNCHANGED notConcVars

\* the GET answers COMPLETED with the output of the job that was polled:
\* return self._build_responses(output, request)
ConcGetCompleted(c) ==
    /\ cc_calls[c].pc = "get"
    /\ \E output \in ConcOutputs :
          LET built == BuildResponses(UnwrapOutput(output),
                                      cl_requests[cc_calls[c].request], cc_calls[c].request)
          IN  cc_calls' = [cc_calls EXCEPT
                             ![c].pc = IF built.ok THEN "returned" ELSE "raised",
                             ![c].error = IF built.ok THEN "none" ELSE built.error.kind,
                             ![c].results = built.responses]
    /\ cc_hist' = [cc_hist EXCEPT ![c].answered = ConcFrameOf(c).job_id]
    /\ UNCHANGED <<cc_now, cc_frames, cc_jobs>>
    /\ UNCHANGED notConcVars

\* the GET answers FAILED or CANCELLED, or with a non-transient HTTP error:
\* the call raises
ConcGetFailed(c) ==
    /\ cc_calls[c].pc = "get"
    /\ \E kind \in {"http", "job_failed"} :
          cc_calls' = [cc_calls EXCEPT ![c].pc = "raised", ![c].error = kind]
    /\ UNCHANGED <<cc_now, cc_frames, cc_hist, cc_jobs>>
    /\ UNCHANGED notConcVars

-----------------------------------------------------------------------------
(* Gateway: the routes upload_document, trigger_qa and clear_cache, the
   in-memory DocumentStore, the task queue and the Celery task
   process_document.  The routes are coroutines on one event loop; a store
   operation holds the lock without awaiting, so it is one step. *)

NoDoc == [id |-> "<none>"]

\* storage_uri = None
NoUri == <<>>

\* the id create_job gives the uploaded job, and one that no job has
GwJobId == "job-1"

GwRequestIds == {GwJobId, "job-x"}

\* Bounds of the gateway model: trigger_qa and clear_cache requests made
MaxQa == 2

MaxClears == 2

\* uploaded file names: stem and suffix as pathlib splits them
GwFilenames ==
    {[stem |-> "plan", suffix |-> ".pdf"], [stem |-> "PLAN", suffix |-> ".PDF"],
     [stem |-> "scan", suffix |-> ".Jpeg"], [stem |-> "notes", suffix |-> ".txt"],
     [stem |-> "plan", suffix |-> ""]}

\* the tasks query parameter: its default, a list with qa, the empty list
GwTaskLists == {<<"layout", "rooms", "annotations">>, <<"qa">>, <<>>}

\* str.lower() on the suffixes of GwFilenames
Lower(ext) ==
    CASE ext = ".PDF" -> ".pdf"
      [] ext = ".Jpeg" -> ".jpeg"
      [] OTHER -> ext

\* allowed_extensions
AllowedExtensions == {".pdf", ".png", ".jpg", ".jpeg", ".webp"}

SuffixAsGiven(filename) == filename.suffix

\* extension = Path(file.filename).suffix.lower()
ExtensionOf(filename) == Lower(filename.suffix)

\* storage.persist_upload: the URI of the stored original
StorageUri(filename) == <<"s3", GwJobId, "input", filename>>

\* create_job: DocumentJob(id=job_id, filename=filename, tasks=list(tasks)),
\* status pending, no storage_uri, empty metadata
NewDocumentJob(filename) ==
    [id |-> GwJobId, filename |-> filename, status |-> "pending", storage_uri |-> NoUri,
     metadata |-> [path |-> NoUri, cache_cleared |-> FALSE]]

\* document_store.get_job(job_id)
GetJob(id) == IF gw_store # NoDoc /\ gw_store.id = id THEN gw_store ELSE NoDoc

\* job.model_dump(mode="json"), pdf_path: the message sent to the queue
TaskMessage(j, tasks, pdf_path) ==
    [job |-> [id |-> j.id, status |-> j.status, storage_uri |-> j.storage_uri,
              tasks |-> tasks],
     pdf_path |-> pdf_path]

ToThreadPurgeAccepted(id, remove_original) == "done"

\* asyncio.to_thread(storage.purge_job_cache, job_id, remove_original):
\* purge_job_cache(job_id, *, remove_original=False) is called with two
\* positional arguments, which raises TypeError
ToThreadPurge(id, remove_original) == "TypeError"

\* the upload request: its file name, its local job, its answer, and what
\* it has done so far: jobs created, originals persisted, tasks enqueued
NewUpload(pc) ==
    [pc |-> pc, filename |-> [stem |-> "", suffix |-> ""], job |-> NoDoc, response |-> 0,
     created |-> 0, persisted |-> 0, enqueued |-> 0]

GwInit ==
    /\ gw_store = NoDoc
    /\ gw_tasks = <<>>
    /\ gw_upload = NewUpload("none")
    /\ gw_clear = [pc |-> "none", id |-> NoDoc.id, job |-> NoDoc, remove_original |-> FALSE,
                   response |-> 0, made |-> 0]
    /\ gw_qa = [id |-> NoDoc.id, response |-> 0, made |-> 0]
    /\ gw_queue = <<>>
    /\ gw_worker = [ended |-> 0, outcome |-> "none"]

\* upload_document: the extension is not allowed, 400
UploadRejected ==
    /\ gw_upload.pc = "none"
    /\ \E filename \in GwFilenames :
          /\ ExtensionOf(filename) \notin AllowedExtensions
          /\ gw_upload' = [gw_upload EXCEPT !.pc = "raised", !.filename = filename,
                                            !.response = 400]
    /\ UNCHANGED <<gw_store, gw_tasks, gw_clear, gw_qa, gw_queue, gw_worker>>
    /\ UNCHANGED notGwVars

\* upload_document up to the await of storage.persist_upload: create_job has
\* stored the pending job
UploadCreate ==
    /\ gw_upload.pc = "none"
    /\ \E filename \in GwFilenames, tasks \in GwTaskLists :
          /\ ExtensionOf(filename) \in AllowedExtensions
          /\ gw_store' = NewDocumentJob(filename)
          /\ gw_tasks' = tasks
          /\ gw_upload' = [gw_upload EXCEPT !.pc = "persisting", !.filename = filename,
                                            !.job = NewDocumentJob(filename),
                                            !.created = @ + 1]
    /\ UNCHANGED <<gw_clear, gw_qa, gw_queue, gw_worker>>
    /\ UNCHANGED notGwVars

\* upload_document from the return of persist_upload: the copy with
\* storage_uri, status processing and the metadata is upserted, the
\* processing is enqueued, 201
UploadStored ==
    /\ gw_upload.pc = "persisting"
    /\ LET storage_uri == StorageUri(gw_upload.job.filename)
           copy == [gw_upload.job EXCEPT !.storage_uri = storage_uri,
                                        !.status = "processing",
                                        !.metadata = [path |-> storage_uri,
                                                      cache_cleared |-> FALSE]]
       IN  /\ gw_store' = copy
           /\ gw_queue' = Append(gw_queue, TaskMessage(copy, gw_tasks, storage_uri))
           /\ gw_upload' = [gw_upload EXCEPT !.pc = "returned", !.job = copy,
                                             !.response = 201, !.persisted = @ + 1,
                                             !.enqueued = @ + 1]
    /\ UNCHANGED <<gw_tasks, gw_clear, gw_qa, gw_worker>>
    /\ UNCHANGED notGwVars

\* persist_upload raises (the object store is unreachable): the request
\* fails, the job stays as create_job stored it
UploadPersistFailed ==
    /\ gw_upload.pc = "persisting"
    /\ gw_upload' = [gw_upload EXCEPT !.pc = "raised", !.response = 500]
    /\ UNCHANGED <<gw_store, gw_tasks, gw_clear, gw_qa, gw_queue, gw_worker>>
    /\ UNCHANGED notGwVars

\* trigger_qa, which has no suspension between get_job and its return
TriggerQa ==
    /\ gw_qa.made < MaxQa
    /\ \E id \in GwRequestIds :
          LET stored == GetJob(id)
          IN  IF stored = NoDoc
                 THEN /\ gw_qa' = [id |-> id, response |-> 404, made |-> gw_qa.made + 1]
                      /\ UNCHANGED <<gw_store, gw_tasks, gw_queue>>
              ELSE IF stored.storage_uri = NoUri
                 THEN /\ gw_qa' = [id |-> id, response |-> 400, made |-> gw_qa.made + 1]
                      /\ UNCHANGED <<gw_store, gw_tasks, gw_queue>>
              ELSE /\ gw_tasks' = IF \E i \in 1..Len(gw_tasks) : gw_tasks[i] = "qa"
                                     THEN gw_tasks ELSE Append(gw_tasks, "qa")
                   /\ gw_store' = stored
                   /\ gw_queue' = Append(gw_queue,
                                         TaskMessage(stored, gw_tasks', stored.storage_uri))
                   /\ gw_qa' = [id |-> id, response |-> 202, made |-> gw_qa.made + 1]
    /\ UNCHANGED <<gw_upload, gw_clear, gw_worker>>
    /\ UNCHANGED notGwVars

\* clear_cache for an id the store does not have, 404
ClearCacheNotFound ==
    /\ gw_clear.pc # "purging"
    /\ gw_clear.made < MaxClears
    /\ \E id \in GwRequestIds, remove_original \in BOOLEAN :
          /\ GetJob(id) = NoDoc
          /\ gw_clear' = [pc |-> "raised", id |-> id, job |-> NoDoc,
                          remove_original |-> remove_original,
                          response |-> 404, made |-> gw_clear.made + 1]
    /\ UNCHANGED <<gw_store, gw_tasks, gw_upload, gw_qa, gw_queue, gw_worker>>
    /\ UNCHANGED notGwVars

\* clear_cache up to the await of asyncio.to_thread: get_job has returned
\* the stored job
ClearCacheRead ==
    /\ gw_clear.pc # "purging"
    /\ gw_clear.made < MaxClears
    /\ \E id \in GwRequestIds, remove_original \in BOOLEAN :
          /\ GetJob(id) # NoDoc
          /\ gw_clear' = [pc |-> "purging", id |-> id, job |-> GetJob(id),
                          remove_original |-> remove_original,
                          response |-> 0, made |-> gw_clear.made + 1]
    /\ UNCHANGED <<gw_store, gw_tasks, gw_upload, gw_qa, gw_queue, gw_worker>>
    /\ UNCHANGED notGwVars

\* clear_cache from the await of asyncio.to_thread: the exception of the
\* call leaves the handler (500); had the call returned, the copy of the job
\* read before the await would be upserted with cache_cleared, and without
\* its storage_uri when remove_original is set (204)
ClearCacheFinish ==
    /\ gw_clear.pc = "purging"
    /\ IF ToThreadPurge(gw_clear.job.id, gw_clear.remove_original) = "TypeError"
          THEN /\ gw_clear' = [gw_clear EXCEPT !.pc = "raised", !.response = 500]
               /\ UNCHANGED gw_store
          ELSE /\ gw_store' =
                     [gw_clear.job EXCEPT
                        !.metadata.cache_cleared = TRUE,
                        !.storage_uri = IF gw_clear.remove_original THEN NoUri ELSE @]
               /\ gw_clear' = [gw_clear EXCEPT !.pc = "returned", !.response = 204]
    /\ UNCHANGED <<gw_tasks, gw_upload, gw_qa, gw_queue, gw_worker>>
    /\ UNCHANGED notGwVars

\* the Celery worker takes a message and runs process_document to its end:
\* it returns the dumped responses or re-raises; it has no access to the
\* gateway's DocumentStore and calls nothing of it
ProcessDocument ==
    /\ gw_queue # <<>>
    /\ \E outcome \in {"returned", "raised"} :
          gw_worker' = [ended |-> gw_worker.ended + 1, outcome |-> outcome]
    /\ gw_queue' = Tail(gw_queue)
    /\ UNCHANGED <<gw_store, gw_tasks, gw_upload, gw_clear, gw_qa>>
    /\ UNCHANGED notGwVars

-----------------------------------------------------------------------------
(* Celery task process_document: rasterize, build the requests, submit *)

\* the stages of a run that goes all the way
PdStages == <<"rasterize", "build", "client", "submit">>

NoRequestsNever(llm_requests) == FALSE

\* if not llm_requests
NoRequests(llm_requests) == llm_requests = <<>>

\* RunPodClient(): __init__ reads settings.runpod_serverless_timeout_seconds
\* and settings.runpod_poll_interval_seconds.  shared/config.py declares
\* neither, and with it the construction raises AttributeError; with a
\* Settings that has them the client is created.
ClientConstructions == {"AttributeError", "created"}

PdInit ==
    /\ pd_job \in {DocumentJob(t) : t \in SeqsUpTo(TaskType, MaxTasks)}
    /\ pd_pc = "start"
    /\ pd_attachments = <<>>
    /\ pd_requests = <<>>
    /\ pd_client = "none"
    /\ pd_submitted = 0
    /\ pd_result = <<>>
    /\ pd_trace = <<>>

\* attachments = pdf_pipeline.rasterize_pdf(pdf_path, job.id) returns
PdRasterize ==
    /\ pd_pc = "start"
    /\ \E n \in 0..MaxPages : pd_attachments' = PageAttachments(n)
    /\ pd_pc' = "rasterized"
    /\ pd_trace' = Append(pd_trace, "rasterize")
    /\ UNCHANGED <<pd_job, pd_requests, pd_client, pd_submitted, pd_result>>
    /\ UNCHANGED notPdVars

\* rasterize_pdf raises: the exception leaves the task
PdRasterizeRaises ==
    /\ pd_pc = "start"
    /\ pd_pc' = "raised"
    /\ pd_trace' = Append(pd_trace, "rasterize")
    /\ UNCHANGED <<pd_job, pd_attachments, pd_requests, pd_client, pd_submitted, pd_result>>
    /\ UNCHANGED notPdVars

\* llm_requests = pdf_pipeline.build_llm_requests(job, attachments)
PdBuild ==
    /\ pd_pc = "rasterized"
    /\ pd_requests' = BuildLLMRequests(pd_job, pd_attachments)
    /\ pd_pc' = "built"
    /\ pd_trace' = Append(pd_trace, "build")
    /\ UNCHANGED <<pd_job, pd_attachments, pd_client, pd_submitted, pd_result>>
    /\ UNCHANGED notPdVars

\* _submit_all: no request, return []
PdNoRequests ==
    /\ pd_pc = "built"
    /\ NoRequests(pd_requests)
    /\ pd_result' = <<>>
    /\ pd_pc' = "returned"
    /\ UNCHANGED <<pd_job, pd_attachments, pd_requests, pd_client, pd_submitted, pd_trace>>
    /\ UNCHANGED notPdVars

\* _submit_all: async with runpod_client.RunPodClient() as client
PdCreateClient ==
    /\ pd_pc = "built"
    /\ ~NoRequests(pd_requests)
    /\ \E construction \in ClientConstructions :
          IF construction = "created"
             THEN pd_client' = "open" /\ pd_pc' = "client"
             ELSE pd_client' = "none" /\ pd_pc' = "raised"
    /\ pd_trace' = Append(pd_trace, "client")
    /\ UNCHANGED <<pd_job, pd_attachments, pd_requests, pd_submitted, pd_result>>
    /\ UNCHANGED notPdVars

\* responses = await client.submit_batch(llm_requests) returns after every
\* request was sent; the client is closed and the dumped responses returned
PdSubmitReturns ==
    /\ pd_pc = "client"
    /\ pd_submitted' = Len(pd_requests)
    /\ \E n \in 0..(Len(pd_requests) * MaxTasks) :
          pd_result' = [i \in 1..n |-> [document_id |-> pd_job.id]]
    /\ pd_client' = "closed"
    /\ pd_pc' = "returned"
    /\ pd_trace' = Append(pd_trace, "submit")
    /\ UNCHANGED <<pd_job, pd_attachments, pd_requests>>
    /\ UNCHANGED notPdVars

\* submit_batch raises at one of the requests: the client is closed, the
\* exception is logged and raised again
PdSubmitRaises ==
    /\ pd_pc = "client"
    /\ \E n \in 1..Len(pd_requests) : pd_submitted' = n
    /\ pd_client' = "closed"
    /\ pd_pc' = "raised"
    /\ pd_trace' = Append(pd_trace, "submit")
    /\ UNCHANGED <<pd_job, pd_attachments, pd_requests, pd_result>>
    /\ UNCHANGED notPdVars

-----------------------------------------------------------------------------
(* Worker: run_analysis, the /analyze route, the serverless handler; and the
   client reading what they return *)

\* a JSON array of objects, a JSON object
JsonList(items) == [type |-> "list", items |-> items]

JsonObject(fields) == [type |-> "dict", fields |-> fields]

\* run_analysis(request): one LLMResponse per task prompt, in order
RunAnalysis(request) ==
    [i \in 1..Len(request.tasks) |->
        [document_id |-> request.document_id, task |-> request.tasks[i].task,
         raw_text |-> "[stub]"]]

\* POST /analyze: return result, serialised as list[LLMResponse]
AnalyzeRoute(request) ==
    LET result == RunAnalysis(request)
    IN  JsonList([i \in 1..Len(result) |-> JsonObject(result[i])])

\* handler(event) for a valid event: return {"results": results}
Handler(request) ==
    LET result == RunAnalysis(request)
    IN  JsonObject([results |-> [i \in 1..Len(result) |-> JsonObject(result[i])]])

\* entry.get("task") of an entry of a JSON array
EntryOf(json) ==
    IF json.type = "dict"
       THEN [type |-> "dict",
             task |-> IF "task" \in DOMAIN json.fields THEN json.fields.task ELSE NoTask]
       ELSE [type |-> "scalar", task |-> NoTask]

\* a JSON value as _build_responses reads it: isinstance(payload, list),
\* payload.get("responses"), entry.get("task")
AsPayload(json) ==
    IF json.type = "list"
       THEN Payload("list", NoTask, FALSE, [i \in 1..Len(json.items) |-> EntryOf(json.items[i])])
       ELSE IF "responses" \in DOMAIN json.fields
               THEN Payload("dict", NoTask, TRUE,
                            [i \in 1..Len(json.fields.responses) |->
                                EntryOf(json.fields.responses[i])])
               ELSE Payload("dict", EntryOf(json).task, FALSE, <<>>)

\* valid batches: the request build_llm_requests makes for page 0 of a job
\* with 1 to MaxTasks task kinds
E2eBatches ==
    {BuildLLMRequests(DocumentJob(t), PageAttachments(1))[1] :
        t \in SeqsUpTo(TaskType, MaxTasks) \ {<<>>}}

E2eInit ==
    /\ e2e_request \in E2eBatches
    /\ e2e_serverless \in BOOLEAN
    /\ e2e_pc = "start"
    /\ e2e_output = JsonList(<<>>)
    /\ e2e_results = <<>>

\* the worker's /analyze route answers the POST
ServeAnalyze ==
    /\ e2e_pc = "start"
    /\ ~e2e_serverless
    /\ e2e_output' = AnalyzeRoute(e2e_request)
    /\ e2e_pc' = "served"
    /\ UNCHANGED <<e2e_request, e2e_serverless, e2e_results>>
    /\ UNCHANGED notE2eVars

\* the provider runs handler on {"input": request} and reports its return
\* value as the output of the COMPLETED status
ServeHandler ==
    /\ e2e_pc = "start"
    /\ e2e_serverless
    /\ e2e_output' = Handler(e2e_request)
    /\ e2e_pc' = "served"
    /\ UNCHANGED <<e2e_request, e2e_serverless, e2e_results>>
    /\ UNCHANGED notE2eVars

\* the client builds its return value: submit for the direct protocol, the
\* COMPLETED branch of _submit_serverless for the job-based one
ClientReceive ==
    /\ e2e_pc = "served"
    /\ e2e_results' =
          IF e2e_serverless
             THEN BuildResponses(UnwrapOutput(AsPayload(e2e_output)), e2e_request, 1).responses
             ELSE BuildResponses(AsPayload(e2e_output), e2e_request, 1).responses
    /\ e2e_pc' = "done"
    /\ UNCHANGED <<e2e_request, e2e_serverless, e2e_output>>
    /\ UNCHANGED notE2eVars

-----------------------------------------------------------------------------
(* Specifications *)

EncIdle ==
    /\ suffix = ".pdf"
    /\ images = <<>>
    /\ index = 0
    /\ quality = INITIAL_JPEG_QUALITY
    /\ image_bytes = 0
    /\ encodings = <<>>
    /\ attachments = <<>>
    /\ written = {}
    /\ enc_pc = "idle"
    /\ enc_returned = FALSE
    /\ enc_result = <<>>
    /\ enc_error = NoError

BuildIdle ==
    /\ job = DocumentJob(<<>>)
    /\ page_atts = <<>>
    /\ build_pc = "idle"
    /\ requests = <<>>

ClientIdle ==
    /\ endpoint = [host |-> "runpod-worker:8000", path |-> <<>>, slash |-> FALSE]
    /\ is_serverless = FALSE
    /\ timeout_seconds = 0
    /\ poll_interval = MinPollInterval
    /\ cl_requests = <<>>
    /\ req_index = 0
    /\ results = <<>>
    /\ cl_pc = "idle"
    /\ cl_returned = FALSE
    /\ cl_result = <<>>
    /\ cl_error = NoError
    /\ job_id = NoJob
    /\ poll_attempts = 0
    /\ deadline = 0
    /\ now = 0
    /\ call = NewCall

ClampIdle ==
    /\ image_size = <<1, 1>>
    /\ new_size = <<1, 1>>
    /\ clamp_pc = "idle"

PdIdle ==
    /\ pd_job = DocumentJob(<<>>)
    /\ pd_pc = "idle"
    /\ pd_attachments = <<>>
    /\ pd_requests = <<>>
    /\ pd_client = "none"
    /\ pd_submitted = 0
    /\ pd_result = <<>>
    /\ pd_trace = <<>>

GwIdle ==
    /\ gw_store = NoDoc
    /\ gw_tasks = <<>>
    /\ gw_upload = NewUpload("idle")
    /\ gw_clear = [pc |-> "idle", id |-> NoDoc.id, job |-> NoDoc, remove_original |-> FALSE,
                   response |-> 0, made |-> 0]
    /\ gw_qa = [id |-> NoDoc.id, response |-> 0, made |-> 0]
    /\ gw_queue = <<>>
    /\ gw_worker = [ended |-> 0, outcome |-> "none"]

ConcIdle ==
    /\ cc_now = 0
    /\ cc_frames = [f \in CallIds |-> NewFrame]
    /\ cc_calls = [c \in CallIds |-> NewConcCall(0)]
    /\ cc_hist = [c \in CallIds |-> NewConcHist]
    /\ cc_jobs = <<>>

E2eIdle ==
    /\ e2e_request = LLMBatchRequest(DocumentJob(<<>>), 0, <<>>, PageAttachments(1)[1])
    /\ e2e_serverless = FALSE
    /\ e2e_pc = "idle"
    /\ e2e_output = JsonList(<<>>)
    /\ e2e_results = <<>>

\* the attachment encoder alone
InitEnc == PdIdle /\ GwIdle /\ ConcIdle /\ EncInit /\ BuildIdle /\ ClientIdle /\ ClampIdle /\ E2eIdle

NextEnc ==
    \/ RasterizePdf
    \/ EncodeFirst
    \/ ReEncode
    \/ SizeExceeded
    \/ EmitAttachment
    \/ ReturnAttachments

SpecEnc == InitEnc /\ [][NextEnc]_vars

\* the prompt builder alone
InitBuild == PdIdle /\ GwIdle /\ ConcIdle /\ EncIdle /\ BuildInit /\ ClientIdle /\ ClampIdle /\ E2eIdle

NextBuild == BuildRequests

SpecBuild == InitBuild /\ [][NextBuild]_vars

\* the inference client alone
InitClient == PdIdle /\ GwIdle /\ ConcIdle /\ EncIdle /\ BuildIdle /\ ClientInit /\ ClampIdle /\ E2eIdle

NextClient ==
    \/ SubmitNext
    \/ BatchReturn
    \/ PostAnalyzeOk
    \/ PostAnalyzeHttpError
    \/ PostRunAccepted
    \/ PostRunMissingId
    \/ PostRunHttpError
    \/ PollTimeout
    \/ PollTransient
    \/ PollHttpError
    \/ PollCompleted
    \/ PollFailed
    \/ PollPending

SpecClient == InitClient /\ [][NextClient]_vars

\* one job-based call at a time, every round trip and every sleep coming to
\* an end: the step the client is waiting for is eventually taken
InitPoll == InitClient /\ is_serverless /\ Len(cl_requests) <= 1

NextPoll ==
    \/ SubmitNext
    \/ BatchReturn
    \/ PostRunAccepted
    \/ PostRunMissingId
    \/ PostRunHttpError
    \/ PollTimeout
    \/ PollTransient
    \/ PollHttpError
    \/ PollCompleted
    \/ PollFailed
    \/ PollPending

SpecPoll == InitPoll /\ [][NextPoll]_vars /\ WF_vars(NextPoll)

\* the dimension clamp alone
InitClamp == PdIdle /\ GwIdle /\ ConcIdle /\ EncIdle /\ BuildIdle /\ ClientIdle /\ ClampInit /\ E2eIdle

NextClamp == ClampImage

SpecClamp == InitClamp /\ [][NextClamp]_vars

\* one batch from the worker to the client's return value
InitE2e == PdIdle /\ GwIdle /\ ConcIdle /\ EncIdle /\ BuildIdle /\ ClientIdle /\ ClampIdle /\ E2eInit

NextE2e ==
    \/ ServeAnalyze
    \/ ServeHandler
    \/ ClientReceive

SpecE2e == InitE2e /\ [][NextE2e]_vars

\* two submit calls interleaved on one client
InitConc == PdIdle /\ GwIdle /\ EncIdle /\ BuildIdle /\ ClampIdle /\ E2eIdle /\ ConcClientInit /\ ConcInit

NextConc ==
    \/ ConcAdvance
    \/ \E c \in CallIds :
          \/ ConcSubmit(c)
          \/ ConcRunAccepted(c)
          \/ ConcRunRejected(c)
          \/ ConcTimeout(c)
          \/ ConcSendGet(c)
          \/ ConcGetTransient(c)
          \/ ConcGetPending(c)
          \/ ConcWake(c)
          \/ ConcGetCompleted(c)
          \/ ConcGetFailed(c)

SpecConc == InitConc /\ [][NextConc]_vars

\* the gateway: one upload, requests on its job, the worker
InitGateway == PdIdle /\ EncIdle /\ BuildIdle /\ ClientIdle /\ ClampIdle /\ E2eIdle /\ ConcIdle /\ GwInit

NextGateway ==
    \/ UploadRejected
    \/ UploadCreate
    \/ UploadStored
    \/ UploadPersistFailed
    \/ TriggerQa
    \/ ClearCacheNotFound
    \/ ClearCacheRead
    \/ ClearCacheFinish
    \/ ProcessDocument

SpecGateway == InitGateway /\ [][NextGateway]_vars

\* every request in flight is answered and every queued message is taken
SpecGatewayFair == InitGateway /\ [][NextGateway]_vars /\ WF_vars(NextGateway)

\* one run of process_document
InitTask ==
    EncIdle /\ BuildIdle /\ ClientIdle /\ ClampIdle /\ E2eIdle /\ ConcIdle /\ GwIdle /\ PdInit

NextTask ==
    \/ PdRasterize
    \/ PdRasterizeRaises
    \/ PdBuild
    \/ PdNoRequests
    \/ PdCreateClient
    \/ PdSubmitReturns
    \/ PdSubmitRaises

SpecTask == InitTask /\ [][NextTask]_vars

-----------------------------------------------------------------------------
(* Claims about the attachment encoder, under SpecEnc *)

-----------------------------------------------------------------------------
(* Claims about the prompt builder, under SpecBuild *)

\* C10: no request of build_llm_requests has an empty task list; a job
\* without tasks yields no request, and so does a job none of whose tasks has
\* a template.
C10_NoRequestWithoutTasks ==
    build_pc = "done" =>
        /\ \A i \in 1..Len(requests) : requests[i].tasks # <<>>
        /\ (job.tasks = <<>> => requests = <<>>)
        /\ ((\A k \in 1..Len(job.tasks) : job.tasks[k] \notin TaskType) => requests = <<>>)

\* pages were offered, the job's only task has no template, nothing was built
C10_Witness ==
    /\ build_pc = "done"
    /\ job.tasks = <<UnknownTask>>
    /\ Len(page_atts) = 2
    /\ requests = <<>>

-----------------------------------------------------------------------------
(* Claims about the inference client, under SpecClient *)

MaxLatency == CHOOSE m \in Latencies : \A l \in Latencies : l <= m

\* the task kinds request k asked for
RequestedTasks(k) == {cl_requests[k].tasks[i].task : i \in 1..Len(cl_requests[k].tasks)}

\* C3: a job-based call that returns has made exactly one POST /run, no POST
\* /analyze, and one GET /status per non-terminal or transient answer plus the
\* one answered COMPLETED, which is the last; its results are the completed
\* output's, appended to the batch's list.
C3_OnePostAndOnePollPerAnswer ==
    (is_serverless /\ call.outcome = "returned") =>
        /\ call.posts_run = 1
        /\ call.posts_analyze = 0
        /\ call.status = "COMPLETED"
        /\ call.gets = call.nonterminal + call.transient + 1
        /\ poll_attempts = call.gets
        /\ cl_pc = "batch"
        /\ Len(results) >= Len(call.results)
        /\ \A i \in 1..Len(call.results) :
              /\ results[Len(results) - Len(call.results) + i] = call.results[i]
              /\ call.results[i].req = req_index
              /\ call.results[i].document_id = CurrentRequest.document_id

\* PENDING three times, then COMPLETED: four polls
C3_Witness ==
    /\ is_serverless
    /\ call.outcome = "returned"
    /\ call.nonterminal = 3
    /\ call.transient = 0
    /\ call.gets = 4
    /\ call.results # <<>>

\* C4: once a poll is answered FAILED or CANCELLED the call has ended with an
\* error carrying the provider's error text ("Unknown error" when it gave
\* none); nothing is returned and no result was produced.
C4_FailedJobIsTerminal ==
    call.status \in {"FAILED", "CANCELLED"} =>
        /\ cl_pc = "raised"
        /\ ~cl_returned
        /\ call.outcome = "raised"
        /\ call.results = <<>>
        /\ cl_error.kind = "job_failed"
        /\ cl_error.text = IF call.error_text = NoText THEN "Unknown error"
                                                       ELSE call.error_text

\* a second poll answered CANCELLED with the text "bad image"
C4_Witness ==
    /\ call.status = "CANCELLED"
    /\ call.error_text = "bad image"
    /\ call.gets = 2
    /\ cl_error.kind = "job_failed"

C6_OnlyTransientPollErrorsRetried ==
    /\ (call.gets > 0 /\ call.http = "retryable") =>
          \/ cl_pc = "poll" /\ cl_error = NoError /\ call.outcome = "running"
          \/ cl_pc = "raised" /\ cl_error.kind = "timeout"
    /\ (call.gets > 0 /\ call.http = "other") =>
          /\ cl_pc = "raised"
          /\ cl_error.kind = "http"
          /\ cl_error.action = "GET /status"
          /\ HttpClass(cl_error.code) = "other"

\* every poll of the call was answered with a transient status, and the call
\* ended by timeout
C6_Witness ==
    /\ cl_error.kind = "timeout"
    /\ call.transient = call.gets
    /\ call.gets >= 2

\* C7, as claimed: when submit_batch fails at a request, the results of the
\* requests that succeeded before it are handed to the caller.
C7_EarlierResultsReachCaller ==
    (cl_pc = "raised" /\ results # <<>>) => (cl_returned /\ cl_result = results)

\* C8, as claimed: the task kind of every result is one of the task kinds of
\* the request it was built for.
C8_TaskKindBelongsToRequest ==
    \A i \in 1..Len(results) : results[i].task \in RequestedTasks(results[i].req)

\* C9, as claimed: a call answered with a collection of objects, one per task
\* of the request, returns one result per entry, under either protocol.
C9_OneResultPerEntry ==
    (/\ call.outcome = "returned"
     /\ call.offered.type = "list"
     /\ call.offered.entries = Len(CurrentRequest.tasks)
     /\ call.offered.dicts = call.offered.entries)
        => Len(call.results) = call.offered.entries

\* the task kinds of the job that have a template, in the job's order
KnownTasks(j) == SelectSeq(j.tasks, LAMBDA t : t \in TaskType)

\* C11: the build never fails, and the task prompts of every request are the
\* job's task kinds that have a template, in the job's task order, each with
\* its template; a kind without a template is left out and the known kinds
\* around it are kept.
C11_PromptsAreKnownTasksInOrder ==
    /\ build_pc \in {"start", "done"}
    /\ \A r \in 1..Len(requests) :
          /\ Len(requests[r].tasks) = Len(KnownTasks(job))
          /\ \A k \in 1..Len(KnownTasks(job)) :
                /\ requests[r].tasks[k].task = KnownTasks(job)[k]
                /\ requests[r].tasks[k].prompt = BasePrompts(KnownTasks(job)[k])
                /\ requests[r].tasks[k].prompt # NoPrompt
    /\ (build_pc = "done" /\ KnownTasks(job) # <<>>) =>
          Len(requests) = Len(page_atts)

\* a job whose first kind has no template and whose second has one, built
\* for a document of several pages
C11_Witness ==
    /\ build_pc = "done"
    /\ Len(job.tasks) = 2
    /\ job.tasks[1] = UnknownTask
    /\ job.tasks[2] \in TaskType
    /\ Len(page_atts) >= 2
    /\ Len(requests) = Len(page_atts)
    /\ Len(requests[2].tasks) = 1

\* C12: every request carries the single attachment of its page i, with
\* page_indices = [i], the job's id as document_id and the job's filename in
\* its context; the requests are in increasing page order; when a task
\* resolves there is one request per attachment, the k-th for page k - 1.
C12_OneRequestPerPageInOrder ==
    /\ \A r \in 1..Len(requests) :
          /\ Len(requests[r].page_indices) = 1
          /\ requests[r].page_indices[1] \in 0..(Len(page_atts) - 1)
          /\ requests[r].attachments = <<page_atts[requests[r].page_indices[1] + 1]>>
          /\ requests[r].document_id = job.id
          /\ requests[r].context = [filename |-> job.filename]
    /\ \A r \in 1..(Len(requests) - 1) :
          requests[r].page_indices[1] < requests[r + 1].page_indices[1]
    /\ (build_pc = "done" /\ \E k \in 1..Len(job.tasks) : job.tasks[k] \in TaskType) =>
          /\ Len(requests) = Len(page_atts)
          /\ \A r \in 1..Len(requests) : requests[r].page_indices = <<r - 1>>

\* requests built for a document of the largest page count
C12_Witness ==
    /\ build_pc = "done"
    /\ Len(page_atts) = MaxPages
    /\ Len(requests) = MaxPages
    /\ requests[MaxPages].attachments[1].filename = PageFilename(MaxPages - 1)

-----------------------------------------------------------------------------
(* Claims about the inference client, continued, under SpecClient *)

\* C13: submit_batch submits one request at a time, in input order: while the
\* call for request i runs, the results collected so far belong to requests
\* before i; the results are grouped by request in request order and a call
\* that returned has appended exactly its own results; after a failure no
\* further request is submitted and nothing is returned; what submit_batch
\* returns, after the last request, is the whole collected list.
C13_SubmitBatchSequential ==
    /\ \A i \in 1..Len(results) : results[i].req \in 1..req_index
    /\ \A i \in 1..(Len(results) - 1) : results[i].req <= results[i + 1].req
    /\ cl_pc \in {"run", "analyze", "poll"} =>
          /\ req_index \in 1..Len(cl_requests)
          /\ call.outcome = "running"
          /\ \A i \in 1..Len(results) : results[i].req < req_index
    /\ (cl_pc = "batch" /\ call.outcome = "returned") =>
          /\ Len(results) >= Len(call.results)
          /\ SubSeq(results, Len(results) - Len(call.results) + 1, Len(results))
                = call.results
          /\ \A i \in 1..Len(call.results) : call.results[i].req = req_index
    /\ cl_pc = "raised" =>
          /\ ~ENABLED SubmitNext
          /\ ~cl_returned
          /\ call.outcome = "raised"
    /\ cl_returned =>
          /\ req_index = Len(cl_requests)
          /\ cl_result = results
          /\ cl_error = NoError

\* a batch of two requests returned, with results of both
C13_Witness ==
    /\ cl_returned
    /\ Len(cl_requests) = 2
    /\ Len(cl_result) >= 3
    /\ cl_result[1].req = 1
    /\ cl_result[Len(cl_result)].req = 2

\* C14: a direct client answers each submit with one POST /analyze and
\* nothing else: the call is over when the POST is answered; a 2xx answer
\* with a JSON object or array returns the results built from it; any other
\* status raises the HTTP error of POST /analyze, without retry or poll.
C14_DirectIsOneRoundTrip ==
    ~is_serverless =>
        /\ call.posts_analyze <= 1
        /\ call.posts_run = 0
        /\ call.gets = 0
        /\ call.slept = 0
        /\ cl_pc = "analyze" => call.posts_analyze = 0
        /\ call.posts_analyze = 1 <=> call.outcome \in {"returned", "raised"}
        /\ (call.posts_analyze = 1 /\ call.http = "success") =>
              /\ call.outcome = "returned" <=> call.offered.type \in {"dict", "list"}
              /\ call.outcome = "raised" =>
                    cl_error.kind \in {"empty_payload", "attribute_error"}
        /\ (call.posts_analyze = 1 /\ call.http # "success") =>
              /\ cl_pc = "raised"
              /\ cl_error.kind = "http"
              /\ cl_error.action = "POST /analyze"
              /\ ~IsSuccess(cl_error.code)

\* the second request of a direct batch answered with a transient status
C14_Witness ==
    /\ ~is_serverless
    /\ req_index = 2
    /\ results # <<>>
    /\ call.posts_analyze = 1
    /\ call.http = "retryable"
    /\ cl_pc = "raised"

BackoffAttempts == 1..(MaxPolls + BackoffCap \div BackoffStep)

\* C16: the backoff delay is at least its base, at most its cap and does not
\* decrease with the attempt count; after a sleep (backoff or inter-poll) the
\* time slept is at most the delay asked for and, under a deadline, at most
\* the time that was left until the deadline, so a sleep that took time ends
\* no later than the deadline.
C16_SleepsBoundedAndClipped ==
    /\ \A a \in BackoffAttempts :
          /\ BackoffDelay(a) >= BackoffBase
          /\ BackoffDelay(a) <= BackoffCap
          /\ BackoffDelay(a) <= BackoffDelay(a + 1)
    /\ (cl_pc = "poll" /\ call.gets > 0) =>
          /\ call.slept >= 0
          /\ call.http = "retryable" => call.slept <= BackoffDelay(poll_attempts)
          /\ call.http = "success" => call.slept <= poll_interval
          /\ HasDeadline =>
                /\ call.slept <= Max2(0, deadline - (now - call.slept))
                /\ call.slept > 0 => now <= deadline
          /\ ~HasDeadline =>
                call.slept = IF call.http = "retryable"
                                THEN BackoffDelay(poll_attempts) ELSE poll_interval

\* a backoff sleep cut short by the deadline
C16_Witness ==
    /\ cl_pc = "poll"
    /\ HasDeadline
    /\ call.http = "retryable"
    /\ call.slept > 0
    /\ call.slept < BackoffDelay(poll_attempts)
    /\ now = deadline

\* C17, as claimed: every error the client raises carries the document id,
\* the task list and the page indices of the request it was raised for.
C17_FatalErrorsCarryRequestContext ==
    cl_pc = "raised" =>
        /\ {"document_id", "tasks", "pages"} \subseteq DOMAIN cl_error
        /\ cl_error.document_id = CurrentRequest.document_id
        /\ cl_error.tasks = TaskNames(CurrentRequest)
        /\ cl_error.pages = CurrentRequest.page_indices

\* C18: an unsuccessful status on POST /analyze, on POST /run or a
\* non-transient one on GET /status raises an error that names that verb and
\* path, the status code, the stripped body cut to BodyPreviewLimit characters
\* and marked exactly when it was longer, the document id, the task list and
\* the page indices of the request, and a credential hint exactly for 401
\* and 403.
C18_HttpErrorMessage ==
    /\ (/\ call.outcome = "raised"
        /\ \/ call.http = "other"
           \/ call.http = "retryable" /\ call.gets = 0) =>
          cl_error.kind = "http"
    /\ cl_error.kind = "http" =>
          /\ cl_pc = "raised"
          /\ cl_error.action = IF call.posts_analyze = 1 THEN "POST /analyze"
                                ELSE IF call.gets > 0 THEN "GET /status"
                                ELSE "POST /run"
          /\ cl_error.code \in HttpStatuses \ {c \in HttpStatuses : c \in 200..299}
          /\ HttpClass(cl_error.code) = call.http
          /\ cl_error.action = "GET /status" => call.http = "other"
          /\ cl_error.body_preview.chars <= BodyPreviewLimit
          /\ cl_error.body_preview.chars = Min2(call.body_chars, BodyPreviewLimit)
          /\ cl_error.body_preview.ellipsis <=> call.body_chars > BodyPreviewLimit
          /\ cl_error.body_preview.placeholder <=> call.body_chars = 0
          /\ cl_error.document_id = CurrentRequest.document_id
          /\ cl_error.tasks = TaskNames(CurrentRequest)
          /\ cl_error.pages = CurrentRequest.page_indices
          /\ cl_error.hint <=> cl_error.code \in {401, 403}

\* a poll answered 403 with a body longer than the preview
C18_Witness ==
    /\ cl_error.kind = "http"
    /\ cl_error.action = "GET /status"
    /\ cl_error.code = 403
    /\ cl_error.hint
    /\ cl_error.body_preview.ellipsis
    /\ call.body_chars = BodyPreviewLimit + 1

\* C20: the protocol is the one the endpoint fixes at construction, for
\* every submit of the batch: a client of a RunPod endpoint never posts to
\* /analyze, any other client never posts to /run and never polls.
C20_ProtocolFixedAtConstruction ==
    /\ \E e \in ConfiguredEndpoints :
          /\ endpoint = EndpointOf(e)
          /\ is_serverless <=> e.host = RunPodHost
    /\ is_serverless =>
          /\ call.posts_analyze = 0
          /\ cl_pc # "analyze"
          /\ cl_error.kind = "http" => cl_error.action # "POST /analyze"
    /\ ~is_serverless =>
          /\ call.posts_run = 0
          /\ call.gets = 0
          /\ cl_pc \notin {"run", "poll"}
          /\ job_id = NoJob
          /\ cl_error.kind = "http" => cl_error.action = "POST /analyze"

\* the second submit of a client of a RunPod endpoint is polling its job
C20_Witness ==
    /\ is_serverless
    /\ endpoint.path = <<"v2", "ep">>
    /\ req_index = 2
    /\ call.posts_run = 1
    /\ call.gets >= 1
    /\ cl_pc = "poll"

-----------------------------------------------------------------------------
(* Claims about the dimension clamp, under SpecClamp *)

\* C19, as claimed: the image the clamp returns has at most MAX_IMAGE_PIXELS
\* pixels, whatever the size of the input, and an input within the ceiling
\* keeps its size.
C19_ClampedAreaWithinCeiling ==
    clamp_pc = "done" =>
        /\ new_size[1] * new_size[2] <= MAX_IMAGE_PIXELS
        /\ image_size[1] * image_size[2] <= MAX_IMAGE_PIXELS => new_size = image_size

-----------------------------------------------------------------------------
(* Claims about the attachment encoder, continued, under SpecEnc *)

-----------------------------------------------------------------------------
(* Claims about the inference client, continued, under SpecClient *)

\* C24: on the job-based protocol a POST /run answered with a non-2xx status
\* (the transient ones included) or answered 2xx without a job id ends the
\* call with an error at once: one POST /run in all, no GET /status; a poll
\* only ever follows a POST /run that was answered 2xx with a job id.
C24_RunFailureIsFatal ==
    /\ call.posts_run <= 1
    /\ (cl_pc = "poll" \/ call.gets > 0) =>
          /\ job_id # NoJob
          /\ call.posts_run = 1
    /\ (call.posts_run = 1 /\ call.gets = 0 /\ call.http # "success") =>
          /\ cl_pc = "raised"
          /\ call.outcome = "raised"
          /\ cl_error.kind = "http"
          /\ cl_error.action = "POST /run"
          /\ ~ENABLED NextClient
    /\ (call.posts_run = 1 /\ job_id = NoJob) =>
          /\ cl_pc = "raised"
          /\ call.gets = 0
          /\ call.http # "success" \/ cl_error.kind = "missing_job_id"
          /\ ~ENABLED NextClient

\* the POST /run of the second request of a batch answered with a transient
\* status
C24_Witness ==
    /\ is_serverless
    /\ req_index = 2
    /\ call.posts_run = 1
    /\ call.http = "retryable"
    /\ call.gets = 0
    /\ cl_pc = "raised"

\* C25, as claimed: a COMPLETED status whose output is an empty list makes
\* the call return, without error, zero results.
C25_EmptyListGivesNoResults ==
    (/\ is_serverless
     /\ call.status = "COMPLETED"
     /\ call.http = "success"
     /\ call.offered.type = "list"
     /\ call.offered.entries = 0)
        => (call.outcome = "returned" /\ call.results = <<>>)

\* C25, amended: a COMPLETED status whose output is an empty list makes the
\* call return, without error, one result: the one built from an empty
\* object, with the request's document id and the request's first task kind.
C25_EmptyListGivesOneDefaultedResult ==
    (/\ is_serverless
     /\ call.status = "COMPLETED"
     /\ call.http = "success"
     /\ call.offered.type = "list"
     /\ call.offered.entries = 0)
        => /\ call.outcome = "returned"
           /\ cl_error = NoError
           /\ Len(call.results) = 1
           /\ call.results[1].task = CurrentRequest.tasks[1].task
           /\ call.results[1].document_id = CurrentRequest.document_id
           /\ results # <<>>
           /\ results[Len(results)] = call.results[1]

\* the call for the second request completed with an empty list
C25_Witness ==
    /\ is_serverless
    /\ req_index = 2
    /\ call.status = "COMPLETED"
    /\ call.offered.type = "list"
    /\ call.offered.entries = 0
    /\ call.outcome = "returned"
    /\ Len(call.results) = 1

\* C28: after a poll answered 2xx with a status other than COMPLETED, FAILED
\* or CANCELLED (an unknown string or none at all) the call has no result and
\* no error from that answer: it has slept the poll interval (cut at the
\* deadline) and is at the head of the poll loop again, or it has since
\* failed by the deadline check.
C28_OtherStatusesArePending ==
    (/\ is_serverless
     /\ call.gets > 0
     /\ call.http = "success"
     /\ call.status \notin {"COMPLETED", "FAILED", "CANCELLED"})
        => /\ call.results = <<>>
           /\ call.nonterminal > 0
           /\ call.slept <= poll_interval
           /\ ~HasDeadline => call.slept = poll_interval
           /\ HasDeadline => call.slept = Max2(0, Min2(poll_interval, deadline - (now - call.slept)))
           /\ \/ cl_pc = "poll" /\ cl_error = NoError /\ call.outcome = "running"
              \/ cl_pc = "raised" /\ cl_error.kind = "timeout" /\ DeadlinePassed

\* polling again after an unknown status and after a missing status field
C28_Witness ==
    /\ cl_pc = "poll"
    /\ call.status = "ARCHIVED"
    /\ call.http = "success"
    /\ call.nonterminal >= 2
    /\ call.slept = poll_interval
    /\ cl_error = NoError

-----------------------------------------------------------------------------
(* Claims about the poll loop, under SpecPoll *)

\* the deadline comes before the model's cap on polls: every sleep lasts at
\* least the poll interval or ends at the deadline
DeadlineBeforeCap == HasDeadline /\ timeout_seconds <= (MaxPolls - 1) * poll_interval

\* C27: with a deadline, a job-based call that has started comes to an end,
\* whatever the provider answers; without a deadline the call never ends by
\* timeout: it ends only by COMPLETED, FAILED, CANCELLED or a non-transient
\* HTTP error, and after any other answer another poll is possible.
C27_TerminationUnderDeadline ==
    /\ [](~HasDeadline =>
            /\ cl_error.kind # "timeout"
            /\ (call.gets > 0 /\ call.outcome # "running") =>
                  \/ call.http = "success" /\ call.status \in {"COMPLETED", "FAILED", "CANCELLED"}
                  \/ call.http = "other" /\ cl_error.kind = "http"
            /\ (cl_pc = "poll" /\ poll_attempts < MaxPolls) =>
                  (ENABLED PollPending /\ ENABLED PollTransient))
    /\ (DeadlineBeforeCap /\ cl_pc \in {"run", "poll"})
          ~> (cl_pc \in {"batch", "raised"} /\ call.outcome # "running")

\* without a deadline: still polling after MaxPolls polls, none of which was
\* answered with a terminal status
C27_Witness ==
    /\ ~HasDeadline
    /\ cl_pc = "poll"
    /\ poll_attempts = MaxPolls
    /\ call.nonterminal + call.transient = MaxPolls
    /\ call.transient > 0
    /\ call.nonterminal > 0

-----------------------------------------------------------------------------
(* Claims about the worker and the client end to end, under SpecE2e *)

\* what submit returns for the batch against the worker's /analyze route
DirectResults(request) ==
    BuildResponses(AsPayload(AnalyzeRoute(request)), request, 1).responses

\* C26, as claimed: for a batch of k tasks served by the serverless handler
\* the client returns k results whose task kinds are the request's, in
\* order: the results the direct protocol returns for that batch.
C26_HandlerOutputGivesSameResults ==
    (e2e_pc = "done" /\ e2e_serverless) =>
        /\ Len(e2e_results) = Len(e2e_request.tasks)
        /\ \A i \in 1..Len(e2e_results) : e2e_results[i].task = e2e_request.tasks[i].task
        /\ e2e_results = DirectResults(e2e_request)

-----------------------------------------------------------------------------
(* Claims about concurrent submit calls, under SpecConc *)

\* C21: calls running concurrently on one client do not interfere.  For every
\* call whose POST /run was accepted: the job id it polls is the one created
\* for its own POST, its poll counter counts its own GETs, its deadline is its
\* own acceptance time plus the timeout, every GET it sent was for its own
\* job, a sleep it is in was computed from its own counter and deadline, and
\* what it returns was built from its own job's output for its own request.
C21_CallsDoNotInterfere ==
    \A c \in CallIds :
        LET f == ConcFrameOf(c)
            h == cc_hist[c]
            k == cc_calls[c]
        IN  h.job # NoJob =>
              /\ f.job_id = h.job
              /\ \E n \in 1..Len(cc_jobs) : JobName(n) = h.job /\ cc_jobs[n] = c
              /\ f.poll_attempts = h.gets
              /\ f.deadline = DeadlineFrom(h.accepted_at)
              /\ h.polled \subseteq {h.job}
              /\ (k.pc = "sleep" /\ h.slept_for = "backoff") =>
                    k.wake = h.slept_at + ClippedSleep(BackoffDelay(h.gets), h.slept_at,
                                                       DeadlineFrom(h.accepted_at))
              /\ (k.pc = "sleep" /\ h.slept_for = "interval") =>
                    k.wake = h.slept_at + ClippedSleep(poll_interval, h.slept_at,
                                                       DeadlineFrom(h.accepted_at))
              /\ (k.pc = "raised" /\ k.error = "timeout") =>
                    (HasDeadline /\ cc_now >= h.accepted_at + timeout_seconds)
              /\ k.pc = "returned" =>
                    /\ h.answered = h.job
                    /\ \A i \in 1..Len(k.results) : k.results[i].req = k.request

\* both calls were accepted at different times and are in their loops with
\* different counters; one has met a transient error and sleeps its backoff
\* while the other has run into its timeout
C21_Witness ==
    /\ cc_hist["A"].job # NoJob /\ cc_hist["B"].job # NoJob
    /\ cc_hist["A"].accepted_at # cc_hist["B"].accepted_at
    /\ cc_hist["A"].gets # cc_hist["B"].gets
    /\ \E c \in CallIds, d \in CallIds :
          /\ cc_calls[c].pc = "sleep" /\ cc_hist[c].slept_for = "backoff"
          /\ cc_calls[d].pc = "raised" /\ cc_calls[d].error = "timeout"

-----------------------------------------------------------------------------
(* Claims about the gateway, under SpecGateway and SpecGatewayFair *)

StoredProcessing ==
    gw_store # NoDoc /\ gw_store.status = "processing" /\ gw_store.storage_uri # NoUri

C22_ProcessingEventuallySettles ==
    (gw_store # NoDoc /\ gw_store.status = "processing")
        ~> (gw_store # NoDoc /\ gw_store.status \in {"ready", "failed"})

-----------------------------------------------------------------------------
(* Claims about process_document, under SpecTask *)

IsPrefix(p, q) == Len(p) <= Len(q) /\ p = SubSeq(q, 1, Len(p))

\* C30: the stages are entered in the order rasterize, build, client, submit,
\* none twice and none before the one in front of it has ended; the provider
\* is sent something only in the submit stage, so never when rasterize_pdf
\* raised; and when no request was built, no client exists, nothing is sent
\* and the task returns the empty list.
C30_StagesInOrder ==
    /\ IsPrefix(pd_trace, PdStages)
    /\ pd_submitted > 0 => pd_trace = PdStages
    /\ pd_client # "none" => IsPrefix(<<"rasterize", "build", "client">>, pd_trace)
    /\ (pd_pc = "raised" /\ pd_trace = <<"rasterize">>) =>
          (pd_submitted = 0 /\ pd_client = "none")
    /\ (pd_pc \in {"built", "client", "returned", "raised"} /\ Len(pd_trace) >= 2
          /\ pd_requests = <<>>) =>
            /\ pd_client = "none"
            /\ pd_submitted = 0
            /\ pd_pc \in {"built", "returned"}
            /\ pd_result = <<>>
            /\ pd_trace = <<"rasterize", "build">>

\* a run with pages but no task kinds has returned the empty list after two
\* stages
C30_Witness ==
    /\ pd_pc = "returned"
    /\ pd_attachments # <<>>
    /\ pd_requests = <<>>
    /\ pd_result = <<>>
    /\ pd_trace = <<"rasterize", "build">>

\* a step in which a clear_cache that found its job is answered
ClearCacheAnswered == gw_clear.pc = "purging" /\ gw_clear'.pc # "purging"

\* a step that is a whole trigger_qa request
TriggerQaAnswered == gw_qa'.made = gw_qa.made + 1

\* C31, as claimed: a clear_cache with remove_original leaves the job without
\* storage_uri, and one without it changes nothing of the job but
\* cache_cleared, which it sets; a trigger_qa on a job without storage_uri
\* is answered 400 and changes neither the tasks nor the queue nor the store;
\* trigger_qa and clear_cache for an id the store does not have are answered
\* 404 and change nothing.
C31_ClearCacheAndTriggerQaEffects ==
    [][/\ (ClearCacheAnswered /\ gw_clear.remove_original) =>
             (gw_store' # NoDoc /\ gw_store'.storage_uri = NoUri)
       /\ (ClearCacheAnswered /\ ~gw_clear.remove_original) =>
             /\ gw_store' = [gw_store EXCEPT !.metadata.cache_cleared = TRUE]
             /\ gw_tasks' = gw_tasks
       /\ (TriggerQaAnswered /\ GetJob(gw_qa'.id) # NoDoc
              /\ GetJob(gw_qa'.id).storage_uri = NoUri) =>
             /\ gw_qa'.response = 400
             /\ UNCHANGED <<gw_store, gw_tasks, gw_queue>>
       /\ (TriggerQaAnswered /\ GetJob(gw_qa'.id) = NoDoc) =>
             /\ gw_qa'.response = 404
             /\ UNCHANGED <<gw_store, gw_tasks, gw_queue>>
       /\ (gw_clear'.made = gw_clear.made + 1 /\ GetJob(gw_clear'.id) = NoDoc) =>
             /\ gw_clear'.response = 404
             /\ UNCHANGED <<gw_store, gw_tasks, gw_queue>>]_vars

====
